---- MODULE Spec2Model ----
(***************************************************************************)
(* Credential resolution, refresh and write-back of the STACKIT CLI        *)
(* provider credentials (stackit/internal/core): profile selection, the    *)
(* keyring and file backends, expiry detection, the OAuth2 refresh grant   *)
(* and the write-back of the refreshed record.                             *)
(***************************************************************************)
EXTENDS Integers, Sequences, FiniteSets, TLC

VARIABLES
    envProfile,   \* value of the environment variable STACKIT_CLI_PROFILE ("" = unset)
    homeOk,       \* os.UserHomeDir() succeeds
    pointer,      \* ~/.config/stackit/cli-profile.txt: [state, data]
    keyring,      \* the OS keyring: a map <<service, key>> -> string
    fs,           \* the credential files: a map path -> file content
    now,          \* the wall clock, in ticks
    issued,       \* number of refresh exchanges the token endpoint has received
    pc,           \* per caller: the position in its resolution
    arg,          \* per caller: the profileOverride argument
    profile,      \* per caller: the profile name in use
    creds,        \* per caller: the in-memory ProviderCredentials
    loc,          \* per caller: locals of the running function
    err,          \* per caller: the error returned (<<>> = nil)
    after,        \* per caller: the callers that had returned when it was called
    reply         \* per caller: what client.Do returned to its refresh (<<>> = not yet)

envVars    == <<envProfile, homeOk, pointer>>
storeVars  == <<keyring, fs>>
callerVars == <<pc, arg, profile, creds, loc, err, after, reply>>
vars       == <<envProfile, homeOk, pointer, keyring, fs, now, issued,
                pc, arg, profile, creds, loc, err, after, reply>>

----------------------------------------------------------------------------
(* Program constants                                                       *)

defaultProfile        == "default"
keychainServicePrefix == "stackit-cli-provider"
keychainAccessToken   == "access_token"
keychainRefreshToken  == "refresh_token"
keychainUserEmail     == "user_email"
keychainSessionExpiry == "session_expires_at_unix"
keychainAuthFlowType  == "auth_flow_type"

\* 5 * time.Minute, in seconds
SafetyMarginSeconds == 300

----------------------------------------------------------------------------
(* Bounds of the model                                                     *)

\* Resolution of the in-memory clock: time.Time carries sub-second
\* precision, the stored expiry (Unix seconds) does not.
TicksPerSecond == 2
\* The clock starts at StartSeconds and advances at most MaxTicks ticks.
StartSeconds == 1000
MaxTicks == 1

Callers == {"c1", "c2"}

----------------------------------------------------------------------------
(* Errors: an error is the sequence of the parts of its message; nil is    *)
(* the empty sequence; fmt.Errorf("p: %w", e) prefixes a part.             *)

NoErr == <<>>
Errorf(prefix, e) == <<prefix>> \o e
ErrNotFound == <<"secret not found in keyring">>
Mentions(e, inner) ==
    \E i \in 1..Len(e) : \E j \in i..Len(e) : SubSeq(e, i, j) = inner

----------------------------------------------------------------------------
(* Time                                                                    *)

\* The zero time.Time (year 1): SessionExpiresAt of a credential without expiry.
ZeroTime == 0 - 1
IsZero(t) == t = ZeroTime
\* time.Unix(sec, 0)
TimeUnix(sec) == sec * TicksPerSecond
\* t.Unix(): whole seconds, the sub-second part dropped
Unix(t) == t \div TicksPerSecond
\* t.Add(d) for d in seconds
AddSeconds(t, s) == t + s * TicksPerSecond
\* t.After(u)
After(t, u) == t > u

----------------------------------------------------------------------------
(* Decimal text: a stored expiry is the sequence of the characters of its  *)
(* text, so that formatting and parsing are computed, not assumed.         *)

DigitChars == <<"0", "1", "2", "3", "4", "5", "6", "7", "8", "9">>
IsDigit(ch) == \E i \in 1..10 : DigitChars[i] = ch
DigitValue(ch) == (CHOOSE i \in 1..10 : DigitChars[i] = ch) - 1

\* fmt.Sprintf("%d", n) for n >= 0
RECURSIVE FormatInt(_)
FormatInt(n) ==
    IF n < 10 THEN <<DigitChars[n + 1]>>
    ELSE FormatInt(n \div 10) \o <<DigitChars[(n % 10) + 1]>>

RECURSIVE DigitsValue(_)
DigitsValue(s) ==
    IF s = <<>> THEN 0
    ELSE DigitsValue(SubSeq(s, 1, Len(s) - 1)) * 10 + DigitValue(s[Len(s)])

\* A parse that takes text that is no decimal integer as 0
ParseIntLenient(s) ==
    IF s # <<>> /\ \A i \in 1..Len(s) : IsDigit(s[i])
    THEN [ok |-> TRUE, val |-> DigitsValue(s)]
    ELSE [ok |-> TRUE, val |-> 0]

\* strconv.ParseInt(s, 10, 64) on unsigned decimal text: [ok, val]
ParseInt(s) ==
    IF s # <<>> /\ \A i \in 1..Len(s) : IsDigit(s[i])
    THEN [ok |-> TRUE, val |-> DigitsValue(s)]
    ELSE [ok |-> FALSE, val |-> 0]

----------------------------------------------------------------------------
(* ProfileResolver                                                         *)

\* The pointer file's text is a sequence of pieces: white space pieces and words.
WhiteSpace == {" ", "\t", "\n"}

RECURSIVE TrimLeft(_)
TrimLeft(s) ==
    IF s # <<>> /\ Head(s) \in WhiteSpace THEN TrimLeft(Tail(s)) ELSE s

RECURSIVE TrimRight(_)
TrimRight(s) ==
    IF s # <<>> /\ s[Len(s)] \in WhiteSpace
    THEN TrimRight(SubSeq(s, 1, Len(s) - 1)) ELSE s

RECURSIVE Join(_)
Join(s) == IF s = <<>> THEN "" ELSE Head(s) \o Join(Tail(s))

\* strings.TrimSpace(string(data))
TrimSpace(data) == Join(TrimRight(TrimLeft(data)))

PointerMissing    == [state |-> "missing",    data |-> <<>>]
PointerUnreadable == [state |-> "unreadable", data |-> <<>>]
PointerFile(data) == [state |-> "ok",         data |-> data]

ErrHome       == <<"$HOME is not defined">>
ErrPermission == <<"permission denied">>

\* getActiveProfile with the environment variable consulted before the override
getActiveProfileEnvFirst(profileOverride) ==
    IF envProfile # "" THEN [profile |-> envProfile, err |-> NoErr]
    ELSE IF profileOverride # "" THEN [profile |-> profileOverride, err |-> NoErr]
    ELSE IF ~homeOk THEN [profile |-> "", err |-> Errorf("get home dir: ", ErrHome)]
    ELSE IF pointer.state = "missing"
         THEN [profile |-> defaultProfile, err |-> NoErr]
    ELSE IF pointer.state # "ok"
         THEN [profile |-> "", err |-> Errorf("read profile file: ", ErrPermission)]
    ELSE [profile |-> TrimSpace(pointer.data), err |-> NoErr]

\* getActiveProfile without the os.IsNotExist test: a missing pointer file is an error
getActiveProfileMissingIsError(profileOverride) ==
    IF profileOverride # "" THEN [profile |-> profileOverride, err |-> NoErr]
    ELSE IF envProfile # "" THEN [profile |-> envProfile, err |-> NoErr]
    ELSE IF ~homeOk THEN [profile |-> "", err |-> Errorf("get home dir: ", ErrHome)]
    ELSE IF pointer.state # "ok"
         THEN [profile |-> "", err |-> Errorf("read profile file: ", ErrPermission)]
    ELSE [profile |-> TrimSpace(pointer.data), err |-> NoErr]

\* getActiveProfile(profileOverride): [profile, err]
getActiveProfile(profileOverride) ==
    IF profileOverride # "" THEN [profile |-> profileOverride, err |-> NoErr]
    ELSE IF envProfile # "" THEN [profile |-> envProfile, err |-> NoErr]
    ELSE IF ~homeOk THEN [profile |-> "", err |-> Errorf("get home dir: ", ErrHome)]
    ELSE IF pointer.state = "missing"
         THEN [profile |-> defaultProfile, err |-> NoErr]
    ELSE IF pointer.state # "ok"
         THEN [profile |-> "", err |-> Errorf("read profile file: ", ErrPermission)]
    ELSE [profile |-> TrimSpace(pointer.data), err |-> NoErr]

\* getKeyringServiceName(profile)
getKeyringServiceName(p) ==
    IF p = defaultProfile THEN keychainServicePrefix
    ELSE keychainServicePrefix \o "/" \o p

HomeDir == "/home/user"

\* filepath.Clean on the elements of a path below the home directory: an
\* empty element and "." are dropped, ".." removes the element before it
RECURSIVE Clean(_)
Clean(elems) ==
    IF elems = <<>> THEN <<>>
    ELSE LET front == Clean(SubSeq(elems, 1, Len(elems) - 1))
             last == elems[Len(elems)]
         IN  IF last \in {"", "."} THEN front
             ELSE IF last = ".."
                  THEN (IF front = <<>> THEN <<>>
                        ELSE SubSeq(front, 1, Len(front) - 1))
             ELSE Append(front, last)

RECURSIVE JoinPath(_)
JoinPath(elems) ==
    IF elems = <<>> THEN "" ELSE "/" \o Head(elems) \o JoinPath(Tail(elems))

\* filepath.Join(homeDir, ".stackit", ...) for a profile (a name without
\* separator): the elements joined and cleaned
CredentialsPath(p) ==
    IF p = defaultProfile
    THEN HomeDir \o JoinPath(Clean(<<".stackit", "cli-provider-auth-storage.txt">>))
    ELSE HomeDir \o JoinPath(Clean(<<".stackit", "profiles", p,
                                     "cli-provider-auth-storage.txt">>))

\* getFilePath(profile): [path, err]
getFilePath(p) ==
    IF ~homeOk THEN [path |-> "", err |-> Errorf("get home dir: ", ErrHome)]
    ELSE [path |-> CredentialsPath(p), err |-> NoErr]

----------------------------------------------------------------------------
(* ProviderCredentials                                                     *)

NilCreds ==
    [nil |-> TRUE, AccessToken |-> "", RefreshToken |-> "", Email |-> "",
     SessionExpiresAt |-> ZeroTime, AuthFlowType |-> "",
     SourceProfile |-> "", StorageLocationUsed |-> ""]

\* &ProviderCredentials{AccessToken: a, RefreshToken: r, Email: e}
NewCreds(a, r, e) ==
    [NilCreds EXCEPT !.nil = FALSE, !.AccessToken = a, !.RefreshToken = r,
                     !.Email = e]

----------------------------------------------------------------------------
(* The keyring: keyring.Get / keyring.Set by service and key               *)

EmptyMap == [k \in {} |-> ""]
Has(m, k) == k \in DOMAIN m
Put(m, k, v) == [x \in DOMAIN m \cup {k} |-> IF x = k THEN v ELSE m[x]]

\* keyring.Get(service, key): [ok, val]
KeyringGet(service, key) ==
    IF Has(keyring, <<service, key>>)
    THEN [ok |-> TRUE, val |-> keyring[<<service, key>>]]
    ELSE [ok |-> FALSE, val |-> ""]

\* keyring.Set(service, key, value), when it succeeds
KeyringSet(service, key, value) == Put(keyring, <<service, key>>, value)

----------------------------------------------------------------------------
(* The credential file: base64 text of a JSON object of strings            *)

\* A file's content: readable or not, valid base64 or not, and what the
\* decoded bytes are: a JSON object of strings (json, data) or anything else.
FileContent(data) == [perm |-> TRUE, b64 |-> TRUE, json |-> TRUE, data |-> data]
\* The file right after O_TRUNC: no bytes (valid base64 of no bytes, which is no JSON).
TruncatedFile == [perm |-> TRUE, b64 |-> TRUE, json |-> FALSE, data |-> EmptyMap]

\* os.ReadFile(path): [err, content]
ReadFile(path) ==
    IF ~Has(fs, path) THEN [err |-> "notexist", content |-> TruncatedFile]
    ELSE IF ~fs[path].perm THEN [err |-> "permission", content |-> TruncatedFile]
    ELSE [err |-> "", content |-> fs[path]]

\* base64.StdEncoding.DecodeString: [ok, bytes]; the bytes keep (json, data)
Base64Decode(content) ==
    [ok |-> content.b64, json |-> content.json, data |-> content.data]
\* base64.StdEncoding.EncodeToString(json.Marshal(data))
Base64Encode(data) == FileContent(data)
\* json.Unmarshal(bytes, &data) into map[string]string: [ok, data]
JsonUnmarshal(bytes) ==
    IF bytes.json THEN [ok |-> TRUE, data |-> bytes.data]
    ELSE [ok |-> FALSE, data |-> EmptyMap]

\* readFromFile testing the required keys for presence only, not for emptiness
readFromFileAcceptsEmpty(p) ==
    LET fp == getFilePath(p)
        rd == ReadFile(fp.path)
        dec == Base64Decode(rd.content)
        js == JsonUnmarshal(dec)
        data == js.data
        Field(k) == IF Has(data, k) THEN data[k] ELSE ""
        base == NewCreds(Field("access_token"), Field("refresh_token"),
                         Field("user_email"))
        exp == IF Has(data, "session_expires_at_unix")
               THEN ParseInt(data["session_expires_at_unix"])
               ELSE [ok |-> FALSE, val |-> 0]
        withExp == IF exp.ok
                   THEN [base EXCEPT !.SessionExpiresAt = TimeUnix(exp.val)]
                   ELSE base
        withFlow == IF Has(data, "auth_flow_type")
                    THEN [withExp EXCEPT !.AuthFlowType = data["auth_flow_type"]]
                    ELSE withExp
        Fail(e) == [creds |-> NilCreds, err |-> e]
    IN  IF fp.err # NoErr THEN Fail(Errorf("get file path: ", fp.err))
        ELSE IF rd.err = "notexist"
             THEN Fail(<<"credentials file not found at ", fp.path>>)
        ELSE IF rd.err # "" THEN Fail(Errorf("read file: ", ErrPermission))
        ELSE IF ~dec.ok
             THEN Fail(Errorf("decode base64: ", <<"illegal base64 data">>))
        ELSE IF ~js.ok
             THEN Fail(Errorf("unmarshal json: ", <<"invalid JSON">>))
        ELSE IF ~Has(data, "access_token")
             THEN Fail(<<"access_token not found in file">>)
        ELSE IF ~Has(data, "refresh_token")
             THEN Fail(<<"refresh_token not found in file">>)
        ELSE IF ~Has(data, "user_email")
             THEN Fail(<<"user_email not found in file">>)
        ELSE [creds |-> withFlow, err |-> NoErr]

\* readFromFile(profile): [creds, err]
readFromFile(p) ==
    LET fp == getFilePath(p)
        rd == ReadFile(fp.path)
        dec == Base64Decode(rd.content)
        js == JsonUnmarshal(dec)
        data == js.data
        Field(k) == IF Has(data, k) THEN data[k] ELSE ""
        base == NewCreds(Field("access_token"), Field("refresh_token"),
                         Field("user_email"))
        exp == IF Has(data, "session_expires_at_unix")
               THEN ParseInt(data["session_expires_at_unix"])
               ELSE [ok |-> FALSE, val |-> 0]
        withExp == IF exp.ok
                   THEN [base EXCEPT !.SessionExpiresAt = TimeUnix(exp.val)]
                   ELSE base
        withFlow == IF Has(data, "auth_flow_type")
                    THEN [withExp EXCEPT !.AuthFlowType = data["auth_flow_type"]]
                    ELSE withExp
        Fail(e) == [creds |-> NilCreds, err |-> e]
    IN  IF fp.err # NoErr THEN Fail(Errorf("get file path: ", fp.err))
        ELSE IF rd.err = "notexist"
             THEN Fail(<<"credentials file not found at ", fp.path>>)
        ELSE IF rd.err # "" THEN Fail(Errorf("read file: ", ErrPermission))
        ELSE IF ~dec.ok
             THEN Fail(Errorf("decode base64: ", <<"illegal base64 data">>))
        ELSE IF ~js.ok
             THEN Fail(Errorf("unmarshal json: ", <<"invalid JSON">>))
        ELSE IF ~Has(data, "access_token") \/ data["access_token"] = ""
             THEN Fail(<<"access_token not found in file">>)
        ELSE IF ~Has(data, "refresh_token") \/ data["refresh_token"] = ""
             THEN Fail(<<"refresh_token not found in file">>)
        ELSE IF ~Has(data, "user_email") \/ data["user_email"] = ""
             THEN Fail(<<"user_email not found in file">>)
        ELSE [creds |-> withFlow, err |-> NoErr]

----------------------------------------------------------------------------
(* TokenRefresher: expiry                                                  *)

\* IsTokenExpired without the safety margin
IsTokenExpiredNoMargin(c, t) ==
    IF c.nil THEN TRUE
    ELSE IF IsZero(c.SessionExpiresAt) THEN FALSE
    ELSE After(t, c.SessionExpiresAt)

\* IsTokenExpired without the test for a missing expiry
IsTokenExpiredNoZeroTest(c, t) ==
    IF c.nil THEN TRUE
    ELSE After(AddSeconds(t, SafetyMarginSeconds), c.SessionExpiresAt)

\* IsTokenExpired with a comparison that takes the boundary as expired
IsTokenExpiredInclusive(c, t) ==
    IF c.nil THEN TRUE
    ELSE IF IsZero(c.SessionExpiresAt) THEN FALSE
    ELSE AddSeconds(t, SafetyMarginSeconds) >= c.SessionExpiresAt

\* IsTokenExpired(creds), at time t
IsTokenExpired(c, t) ==
    IF c.nil THEN TRUE
    ELSE IF IsZero(c.SessionExpiresAt) THEN FALSE
    ELSE After(AddSeconds(t, SafetyMarginSeconds), c.SessionExpiresAt)

----------------------------------------------------------------------------
(* The token endpoint                                                      *)

\* Tokens of the n-th exchange the endpoint answers
NewAccessToken(n)  == "A" \o ToString(n + 1)
NewRefreshToken(n) == "R" \o ToString(n + 1)

\* An HTTP exchange's outcome, as RefreshAccessToken sees it: client.Do failed
\* (transport error or the 30 s timeout), or a response with a status and a
\* body, which decodes as a RefreshTokenResponse or does not.
TransportError ==
    [answered |-> FALSE, status |-> 0, body |-> "", decodes |-> FALSE,
     access_token |-> "", refresh_token |-> "", expires_in |-> 0]
StatusResponse(status, body) ==
    [TransportError EXCEPT !.answered = TRUE, !.status = status, !.body = body]
JsonResponse(at, rt, ein) ==
    [TransportError EXCEPT !.answered = TRUE, !.status = 200, !.decodes = TRUE,
                           !.access_token = at, !.refresh_token = rt,
                           !.expires_in = ein]

\* The responses the n-th exchange can get
Responses(n) ==
    { TransportError,
      StatusResponse(400, "invalid_grant"),
      StatusResponse(500, "internal error"),
      StatusResponse(200, "<html>"),
      JsonResponse(NewAccessToken(n), NewRefreshToken(n), 3600),
      JsonResponse(NewAccessToken(n), "", 3600),
      JsonResponse(NewAccessToken(n), NewRefreshToken(n), 0),
      JsonResponse(NewAccessToken(n), NewRefreshToken(n), 200),
      JsonResponse("", "", 0) }

----------------------------------------------------------------------------
(* A resolution by caller c, as the provider runs it:                      *)
(*   creds, err := ReadCLICredentials(profileOverride)                     *)
(*   err = EnsureValidToken(creds)                                         *)
(* Every keyring call, file system call and the HTTP exchange is a step.   *)

NoLocals ==
    [accessToken |-> "", refreshToken |-> "", kerr |-> NoErr, data |-> EmptyMap]

\* The positions at which a resolution has ended: the read failed, the
\* credential was valid as read, it was refreshed and written back, the
\* refresh failed, the write-back failed
Terminal == {"read_failed", "valid", "refreshed", "refresh_failed", "write_failed"}

Return(c, label, cr, e) ==
    /\ pc' = [pc EXCEPT ![c] = label]
    /\ creds' = [creds EXCEPT ![c] = cr]
    /\ err' = [err EXCEPT ![c] = e]
    /\ loc' = [loc EXCEPT ![c] = NoLocals]

Goto(c, label) == pc' = [pc EXCEPT ![c] = label]

Service(c) == getKeyringServiceName(profile[c])

\* ReadCLICredentials(profileOverride) is called: getActiveProfile
Call(c, override) ==
    /\ pc[c] = "idle"
    /\ arg' = [arg EXCEPT ![c] = override]
    /\ after' = [after EXCEPT ![c] = {d \in Callers : pc[d] \in Terminal}]
    /\ LET r == getActiveProfile(override)
       IN  IF r.err # NoErr
           THEN /\ Return(c, "read_failed", NilCreds, Errorf("determine active profile: ", r.err))
                /\ UNCHANGED profile
           ELSE /\ profile' = [profile EXCEPT ![c] = r.profile]
                /\ Goto(c, "get_access_token")
                /\ UNCHANGED <<creds, err, loc>>
    /\ UNCHANGED <<envVars, storeVars, now, issued, reply>>

\* A keyring failure returned to the caller without trying the file
KeyringReadFailedNoFallback(c, e) ==
    Return(c, "read_failed", NilCreds, e)

\* A keyring failure answered by reading the keyring again
KeyringReadFailedRetries(c, e) ==
    /\ Goto(c, "get_access_token")
    /\ loc' = [loc EXCEPT ![c] = [NoLocals EXCEPT !.kerr = e]]
    /\ UNCHANGED <<creds, err>>

\* readFromKeychain failed with e: ReadCLICredentials falls back to the file
KeyringReadFailed(c, e) ==
    /\ Goto(c, "read_file")
    /\ loc' = [loc EXCEPT ![c] = [NoLocals EXCEPT !.kerr = e]]
    /\ UNCHANGED <<creds, err>>

\* readFromKeychain: keyring.Get(serviceName, keychainAccessToken)
GetAccessToken(c) ==
    /\ pc[c] = "get_access_token"
    /\ LET g == KeyringGet(Service(c), keychainAccessToken)
       IN  IF ~g.ok
           THEN KeyringReadFailed(c, Errorf("get access_token: ", ErrNotFound))
           ELSE /\ loc' = [loc EXCEPT ![c].accessToken = g.val]
                /\ Goto(c, "get_refresh_token")
                /\ UNCHANGED <<creds, err>>
    /\ UNCHANGED <<envVars, storeVars, now, issued, arg, profile, after, reply>>

\* readFromKeychain: keyring.Get(serviceName, keychainRefreshToken)
GetRefreshToken(c) ==
    /\ pc[c] = "get_refresh_token"
    /\ LET g == KeyringGet(Service(c), keychainRefreshToken)
       IN  IF ~g.ok
           THEN KeyringReadFailed(c, Errorf("get refresh_token: ", ErrNotFound))
           ELSE /\ loc' = [loc EXCEPT ![c].refreshToken = g.val]
                /\ Goto(c, "get_user_email")
                /\ UNCHANGED <<creds, err>>
    /\ UNCHANGED <<envVars, storeVars, now, issued, arg, profile, after, reply>>

\* readFromKeychain: keyring.Get(serviceName, keychainUserEmail), and the
\* credential built from the three required entries
GetUserEmail(c) ==
    /\ pc[c] = "get_user_email"
    /\ LET g == KeyringGet(Service(c), keychainUserEmail)
       IN  IF ~g.ok
           THEN KeyringReadFailed(c, Errorf("get user_email: ", ErrNotFound))
           ELSE /\ creds' = [creds EXCEPT ![c] =
                       NewCreds(loc[c].accessToken, loc[c].refreshToken, g.val)]
                /\ loc' = [loc EXCEPT ![c] = NoLocals]
                /\ Goto(c, "get_expiry")
                /\ UNCHANGED err
    /\ UNCHANGED <<envVars, storeVars, now, issued, arg, profile, after, reply>>

\* readFromKeychain: the optional expiry entry
GetExpiry(c) ==
    /\ pc[c] = "get_expiry"
    /\ LET g == KeyringGet(Service(c), keychainSessionExpiry)
           parsed == IF g.ok THEN ParseInt(g.val) ELSE [ok |-> FALSE, val |-> 0]
       IN  creds' = [creds EXCEPT ![c].SessionExpiresAt =
                        IF parsed.ok THEN TimeUnix(parsed.val) ELSE @]
    /\ Goto(c, "get_auth_flow")
    /\ UNCHANGED <<envVars, storeVars, now, issued, arg, profile, loc, err, after, reply>>

\* readFromKeychain: the optional auth flow type entry; the keyring read has
\* succeeded and ReadCLICredentials returns the credential
GetAuthFlow(c) ==
    /\ pc[c] = "get_auth_flow"
    /\ LET g == KeyringGet(Service(c), keychainAuthFlowType)
       IN  creds' = [creds EXCEPT ![c] =
                        [@ EXCEPT !.AuthFlowType = IF g.ok THEN g.val ELSE @,
                                  !.SourceProfile = profile[c],
                                  !.StorageLocationUsed = "keyring"]]
    /\ Goto(c, "ensure")
    /\ UNCHANGED <<envVars, storeVars, now, issued, arg, profile, loc, err, after, reply>>

\* A file fallback that keeps the access token the keyring had given
ReadFromFileKeepsKeyringToken(c) ==
    /\ pc[c] = "read_file"
    /\ LET r == readFromFile(profile[c])
           g == KeyringGet(Service(c), keychainAccessToken)
       IN  IF r.err = NoErr
           THEN /\ creds' = [creds EXCEPT ![c] =
                       [r.creds EXCEPT !.AccessToken = IF g.ok THEN g.val ELSE @,
                                       !.SourceProfile = profile[c],
                                       !.StorageLocationUsed = "file"]]
                /\ loc' = [loc EXCEPT ![c] = NoLocals]
                /\ Goto(c, "ensure")
                /\ UNCHANGED err
           ELSE Return(c, "read_failed", NilCreds,
                       <<"failed to read CLI credentials from keyring (">>
                       \o loc[c].kerr \o <<") or file (">> \o r.err
                       \o <<"). Please run 'stackit auth provider login' first">>)
    /\ UNCHANGED <<envVars, storeVars, now, issued, arg, profile, after, reply>>

\* ReadCLICredentials: the file fallback, and the combined error if it fails too
ReadFromFile(c) ==
    /\ pc[c] = "read_file"
    /\ LET r == readFromFile(profile[c])
       IN  IF r.err = NoErr
           THEN /\ creds' = [creds EXCEPT ![c] =
                       [r.creds EXCEPT !.SourceProfile = profile[c],
                                       !.StorageLocationUsed = "file"]]
                /\ loc' = [loc EXCEPT ![c] = NoLocals]
                /\ Goto(c, "ensure")
                /\ UNCHANGED err
           ELSE Return(c, "read_failed", NilCreds,
                       <<"failed to read CLI credentials from keyring (">>
                       \o loc[c].kerr \o <<") or file (">> \o r.err
                       \o <<"). Please run 'stackit auth provider login' first">>)
    /\ UNCHANGED <<envVars, storeVars, now, issued, arg, profile, after, reply>>

\* An IsAuthenticated that also wants the credential not to be expired
IsAuthenticatedRequiresFresh(c) ==
    /\ pc[c] \in {"ensure", "read_failed"}
    /\ pc' = [pc EXCEPT ![c] =
                IF err[c] # NoErr THEN "unauthenticated"
                ELSE IF /\ ~creds[c].nil /\ creds[c].AccessToken # ""
                        /\ ~IsTokenExpired(creds[c], now)
                     THEN "authenticated"
                ELSE "unauthenticated"]
    /\ UNCHANGED <<envVars, storeVars, now, issued,
                   arg, profile, creds, loc, err, after, reply>>

\* An IsAuthenticated that records its answer in the keyring
IsAuthenticatedCachesResult(c) ==
    /\ pc[c] \in {"ensure", "read_failed"}
    /\ pc' = [pc EXCEPT ![c] =
                IF err[c] # NoErr THEN "unauthenticated"
                ELSE IF ~creds[c].nil /\ creds[c].AccessToken # ""
                     THEN "authenticated"
                ELSE "unauthenticated"]
    /\ keyring' = Put(keyring, <<keychainServicePrefix, "authenticated">>, "checked")
    /\ UNCHANGED <<envVars, fs, now, issued,
                   arg, profile, creds, loc, err, after, reply>>

\* IsAuthenticated(profileOverride), once its ReadCLICredentials has returned
IsAuthenticated(c) ==
    /\ pc[c] \in {"ensure", "read_failed"}
    /\ pc' = [pc EXCEPT ![c] =
                IF err[c] # NoErr THEN "unauthenticated"
                ELSE IF ~creds[c].nil /\ creds[c].AccessToken # ""
                     THEN "authenticated"
                ELSE "unauthenticated"]
    /\ UNCHANGED <<envVars, storeVars, now, issued,
                   arg, profile, creds, loc, err, after, reply>>

\* WriteCLICredentials using creds.SourceProfile as it is, empty or not
WriteProfileAsIs(c) == creds[c].SourceProfile

\* WriteCLICredentials: profile := creds.SourceProfile, or the default if empty
WriteProfile(c) ==
    IF creds[c].SourceProfile = "" THEN defaultProfile ELSE creds[c].SourceProfile
WriteService(c) == getKeyringServiceName(WriteProfile(c))

\* EnsureValidToken sending the request without the tests of the credential
EnsureSkipsChecks(c) ==
    /\ pc[c] = "ensure"
    /\ IF ~IsTokenExpired(creds[c], now)
       THEN Return(c, "valid", creds[c], NoErr)
       ELSE /\ Goto(c, "http")
            /\ UNCHANGED <<creds, err, loc>>
    /\ UNCHANGED <<envVars, storeVars, now, issued, arg, profile, after, reply>>

\* EnsureValidToken(creds): IsTokenExpired, and when expired RefreshAccessToken
\* up to the request it sends
Ensure(c) ==
    /\ pc[c] = "ensure"
    /\ IF ~IsTokenExpired(creds[c], now)
       THEN Return(c, "valid", creds[c], NoErr)
       ELSE IF creds[c].nil
       THEN Return(c, "refresh_failed", creds[c], <<"credentials cannot be nil">>)
       ELSE IF creds[c].RefreshToken = ""
       THEN Return(c, "refresh_failed", creds[c], <<"refresh token is empty">>)
       ELSE /\ Goto(c, "http")
            /\ UNCHANGED <<creds, err, loc>>
    /\ UNCHANGED <<envVars, storeVars, now, issued, arg, profile, after, reply>>

\* The update taking the response's refresh_token even when it is empty
UpdateCredentialsAlwaysRotates(cr, resp, t) ==
    [cr EXCEPT !.AccessToken = resp.access_token,
               !.RefreshToken = resp.refresh_token,
               !.SessionExpiresAt = IF resp.expires_in > 0
                                    THEN AddSeconds(t, resp.expires_in) ELSE @]

\* RefreshAccessToken: the credential updated from a decoded response
UpdateCredentials(cr, resp, t) ==
    [cr EXCEPT !.AccessToken = resp.access_token,
               !.RefreshToken = IF resp.refresh_token # ""
                                THEN resp.refresh_token ELSE @,
               !.SessionExpiresAt = IF resp.expires_in > 0
                                    THEN AddSeconds(t, resp.expires_in) ELSE @]

\* A refresh grant that fails and deletes the stored access token
GrantFailedClearsToken(c, e) ==
    /\ Return(c, "refresh_failed", creds[c], e)
    /\ keyring' = [k \in DOMAIN keyring \ {<<WriteService(c), keychainAccessToken>>}
                     |-> keyring[k]]
    /\ UNCHANGED fs

\* A failed grant tried again instead of returned
GrantFailedRetries(c, e) ==
    /\ Goto(c, "ensure")
    /\ UNCHANGED <<creds, err, loc, storeVars>>

\* A failed grant returned with the first part of its message only
GrantFailedDropsBody(c, e) ==
    /\ Return(c, "refresh_failed", creds[c], <<Head(e)>>)
    /\ UNCHANGED storeVars

\* RefreshAccessToken returns the error of a failed grant
GrantFailed(c, e) ==
    /\ Return(c, "refresh_failed", creds[c], e)
    /\ UNCHANGED storeVars

\* RefreshAccessToken: client.Do returns; the status check, the decoding and
\* the update of the credential in place
Http(c, resp) ==
    /\ pc[c] = "http"
    /\ issued' = IF resp.answered THEN issued + 1 ELSE issued
    /\ reply' = [reply EXCEPT ![c] = <<resp>>]
    /\ IF ~resp.answered
       THEN GrantFailed(c, Errorf("execute request: ", <<"transport error">>))
       ELSE IF resp.status # 200
       THEN GrantFailed(c, <<"token refresh failed with status ",
                             ToString(resp.status), ": ", resp.body>>)
       ELSE IF ~resp.decodes
       THEN GrantFailed(c, Errorf("decode response: ", <<"invalid character">>))
       ELSE /\ creds' = [creds EXCEPT ![c] = UpdateCredentials(@, resp, now)]
            /\ Goto(c, "set_access_token")
            /\ UNCHANGED <<err, loc, storeVars>>
    /\ UNCHANGED <<envVars, now, arg, profile, after>>

\* A failed keyring write returned to the caller without trying the file
KeyringWriteFailedNoFallback(c) ==
    /\ Return(c, "write_failed", creds[c],
              Errorf("write refreshed credentials: ", <<"set: keyring unavailable">>))
    /\ UNCHANGED keyring

\* writeToKeyring failed: WriteCLICredentials falls back to writeToFile
KeyringWriteFailed(c) ==
    /\ Goto(c, "write_file_read")
    /\ UNCHANGED <<keyring, creds, err, loc>>

\* writeToKeyring: the step after the required entries are set
AfterRequired(cr) ==
    IF ~IsZero(cr.SessionExpiresAt) THEN "set_expiry"
    ELSE IF cr.AuthFlowType # "" THEN "set_auth_flow"
    ELSE "written"
AfterExpiry(cr) == IF cr.AuthFlowType # "" THEN "set_auth_flow" ELSE "written"

\* RefreshAccessToken returns nil once WriteCLICredentials has returned nil
Written(c, label) ==
    IF label = "written"
    THEN Return(c, "refreshed", creds[c], NoErr)
    ELSE /\ Goto(c, label)
         /\ UNCHANGED <<creds, err, loc>>

\* writeToKeyring: keyring.Set(serviceName, keychainAccessToken, ...)
SetAccessToken(c, ok) ==
    /\ pc[c] = "set_access_token"
    /\ IF ~ok THEN KeyringWriteFailed(c)
       ELSE /\ keyring' = KeyringSet(WriteService(c), keychainAccessToken,
                                     creds[c].AccessToken)
            /\ Goto(c, "set_refresh_token")
            /\ UNCHANGED <<creds, err, loc>>
    /\ UNCHANGED <<envVars, fs, now, issued, arg, profile, after, reply>>

\* writeToKeyring: keyring.Set(serviceName, keychainRefreshToken, ...)
SetRefreshToken(c, ok) ==
    /\ pc[c] = "set_refresh_token"
    /\ IF ~ok THEN KeyringWriteFailed(c)
       ELSE /\ keyring' = KeyringSet(WriteService(c), keychainRefreshToken,
                                     creds[c].RefreshToken)
            /\ Goto(c, "set_user_email")
            /\ UNCHANGED <<creds, err, loc>>
    /\ UNCHANGED <<envVars, fs, now, issued, arg, profile, after, reply>>

\* writeToKeyring: keyring.Set(serviceName, keychainUserEmail, ...)
SetUserEmail(c, ok) ==
    /\ pc[c] = "set_user_email"
    /\ IF ~ok THEN KeyringWriteFailed(c)
       ELSE /\ keyring' = KeyringSet(WriteService(c), keychainUserEmail,
                                     creds[c].Email)
            /\ Written(c, AfterRequired(creds[c]))
    /\ UNCHANGED <<envVars, fs, now, issued, arg, profile, after, reply>>

\* writeToKeyring: the expiry entry, its error ignored
SetExpiry(c, ok) ==
    /\ pc[c] = "set_expiry"
    /\ keyring' = IF ok
                  THEN KeyringSet(WriteService(c), keychainSessionExpiry,
                                  FormatInt(Unix(creds[c].SessionExpiresAt)))
                  ELSE keyring
    /\ Written(c, AfterExpiry(creds[c]))
    /\ UNCHANGED <<envVars, fs, now, issued, arg, profile, after, reply>>

\* writeToKeyring: the auth flow type entry, its error ignored
SetAuthFlow(c, ok) ==
    /\ pc[c] = "set_auth_flow"
    /\ keyring' = IF ok
                  THEN KeyringSet(WriteService(c), keychainAuthFlowType,
                                  creds[c].AuthFlowType)
                  ELSE keyring
    /\ Written(c, "written")
    /\ UNCHANGED <<envVars, fs, now, issued, arg, profile, after, reply>>

\* writeToFile leaving the file's access_token as it was
MergedDataKeepsAccessToken(existing, cr) ==
    LET d1 == Put(Put(IF Has(existing, "access_token") THEN existing
                      ELSE Put(existing, "access_token", cr.AccessToken),
                      "refresh_token", cr.RefreshToken),
                  "user_email", cr.Email)
        d2 == IF ~IsZero(cr.SessionExpiresAt)
              THEN Put(d1, "session_expires_at_unix",
                       FormatInt(Unix(cr.SessionExpiresAt)))
              ELSE d1
    IN  IF cr.AuthFlowType # "" THEN Put(d2, "auth_flow_type", cr.AuthFlowType)
        ELSE d2

\* writeToFile: the map read from the existing file, updated from the credential
MergedData(existing, cr) ==
    LET d1 == Put(Put(Put(existing, "access_token", cr.AccessToken),
                      "refresh_token", cr.RefreshToken),
                  "user_email", cr.Email)
        d2 == IF ~IsZero(cr.SessionExpiresAt)
              THEN Put(d1, "session_expires_at_unix",
                       FormatInt(Unix(cr.SessionExpiresAt)))
              ELSE d1
    IN  IF cr.AuthFlowType # "" THEN Put(d2, "auth_flow_type", cr.AuthFlowType)
        ELSE d2

\* writeToFile starting from an empty map whatever the file holds
ExistingDataDropped(path) == EmptyMap

\* writeToFile: the existing file's map, or an empty one
ExistingData(path) ==
    LET rd == ReadFile(path)
        dec == Base64Decode(rd.content)
    IN  IF rd.err = "" /\ dec.ok THEN JsonUnmarshal(dec).data ELSE EmptyMap

WriteFailed(c, e) ==
    Return(c, "write_failed", creds[c], Errorf("write refreshed credentials: ", e))

\* writeToFile: getFilePath, os.ReadFile of the existing file, the merge
WriteFileRead(c) ==
    /\ pc[c] = "write_file_read"
    /\ LET fp == getFilePath(WriteProfile(c))
       IN  IF fp.err # NoErr
           THEN WriteFailed(c, Errorf("get file path: ", fp.err))
           ELSE /\ loc' = [loc EXCEPT ![c].data =
                              MergedData(ExistingData(fp.path), creds[c])]
                /\ Goto(c, "write_file_open")
                /\ UNCHANGED <<creds, err>>
    /\ UNCHANGED <<envVars, storeVars, now, issued, arg, profile, after, reply>>

\* writeToFile: os.MkdirAll, and os.WriteFile opening the file with O_TRUNC
WriteFileOpen(c, ok) ==
    /\ pc[c] = "write_file_open"
    /\ LET path == getFilePath(WriteProfile(c)).path
       IN  IF ~ok \/ (Has(fs, path) /\ ~fs[path].perm)
           THEN /\ WriteFailed(c, ErrPermission)
                /\ UNCHANGED fs
           ELSE /\ fs' = Put(fs, path, TruncatedFile)
                /\ Goto(c, "write_file_write")
                /\ UNCHANGED <<creds, err, loc>>
    /\ UNCHANGED <<envVars, keyring, now, issued, arg, profile, after, reply>>

\* writeToFile: os.WriteFile writing the encoded content
WriteFileWrite(c, ok) ==
    /\ pc[c] = "write_file_write"
    /\ LET path == getFilePath(WriteProfile(c)).path
       IN  IF ~ok
           THEN /\ WriteFailed(c, <<"no space left on device">>)
                /\ UNCHANGED fs
           ELSE /\ fs' = Put(fs, path, Base64Encode(loc[c].data))
                /\ Return(c, "refreshed", creds[c], NoErr)
    /\ UNCHANGED <<envVars, keyring, now, issued, arg, profile, after, reply>>

\* WriteCLICredentials(creds) called on its own, by a caller that holds a
\* credential: the test for nil, then writeToKeyring as in the write-back
WriteCLICredentials(c) ==
    /\ pc[c] = "write"
    /\ IF creds[c].nil
       THEN Return(c, "write_failed", creds[c], <<"credentials cannot be nil">>)
       ELSE /\ Goto(c, "set_access_token")
            /\ UNCHANGED <<creds, err, loc>>
    /\ UNCHANGED <<envVars, storeVars, now, issued, arg, profile, after, reply>>

\* Time passes
Tick ==
    /\ now < TimeUnix(StartSeconds) + MaxTicks
    /\ now' = now + 1
    /\ UNCHANGED <<envVars, storeVars, issued, callerVars>>

----------------------------------------------------------------------------
(* The store as the login flow leaves it                                   *)

Profiles == {defaultProfile, "prod"}
Overrides == {"", "prod"}

CredentialKeys ==
    {keychainAccessToken, keychainRefreshToken, keychainUserEmail,
     keychainSessionExpiry, keychainAuthFlowType}

InitialAccessToken(p)  == IF p = defaultProfile THEN "A" ELSE "A-" \o p
InitialRefreshToken(p) == IF p = defaultProfile THEN "R" ELSE "R-" \o p
InitialEmail(p)        == IF p = defaultProfile THEN "e@x.com" ELSE p \o "@x.com"

\* The record of profile p as stored by the login: hasExpiry tells whether
\* session_expires_at_unix is stored, with the value expirySeconds
LoginRecord(p, hasExpiry, expirySeconds) ==
    LET base == [k \in CredentialKeys \ {keychainSessionExpiry} |->
                    IF k = keychainAccessToken THEN InitialAccessToken(p)
                    ELSE IF k = keychainRefreshToken THEN InitialRefreshToken(p)
                    ELSE IF k = keychainUserEmail THEN InitialEmail(p)
                    ELSE "user_token"]
    IN  IF hasExpiry THEN Put(base, keychainSessionExpiry, FormatInt(expirySeconds))
        ELSE base

\* A keyring holding records[p] for every profile p in the domain of records
KeyringOf(records) ==
    LET entries == UNION {{<<p, k>> : k \in DOMAIN records[p]} : p \in DOMAIN records}
    IN  [e \in {<<getKeyringServiceName(x[1]), x[2]>> : x \in entries} |->
            LET p == CHOOSE q \in DOMAIN records : getKeyringServiceName(q) = e[1]
            IN  records[p][e[2]]]

\* A file system holding records[p] in the file of every profile p
FilesOf(records) ==
    [path \in {CredentialsPath(p) : p \in DOMAIN records} |->
        LET p == CHOOSE q \in DOMAIN records : CredentialsPath(q) = path
        IN  FileContent(records[p])]

\* Where the login left the records
Layouts == {"keyring", "file", "both"}

\* The stored expiry: none, or the second at which the safety margin begins
\* when the clock starts
BoundarySeconds == StartSeconds + SafetyMarginSeconds

CallersIdle ==
    /\ pc = [c \in Callers |-> "idle"]
    /\ arg = [c \in Callers |-> ""]
    /\ profile = [c \in Callers |-> ""]
    /\ creds = [c \in Callers |-> NilCreds]
    /\ loc = [c \in Callers |-> NoLocals]
    /\ err = [c \in Callers |-> NoErr]
    /\ after = [c \in Callers |-> {}]
    /\ reply = [c \in Callers |-> <<>>]

Init ==
    /\ envProfile = ""
    /\ homeOk = TRUE
    /\ pointer = PointerMissing
    /\ \E layout \in Layouts, hasExpiry \in BOOLEAN :
          LET records == [p \in Profiles |->
                             LoginRecord(p, hasExpiry, BoundarySeconds)]
          IN  /\ keyring = IF layout \in {"keyring", "both"}
                           THEN KeyringOf(records) ELSE EmptyMap
              /\ fs = IF layout \in {"file", "both"}
                      THEN FilesOf(records) ELSE EmptyMap
    /\ now = TimeUnix(StartSeconds)
    /\ issued = 0
    /\ CallersIdle

\* The steps of ReadCLICredentials after getActiveProfile
FetchStep(c) ==
    \/ GetAccessToken(c)
    \/ GetRefreshToken(c)
    \/ GetUserEmail(c)
    \/ GetExpiry(c)
    \/ GetAuthFlow(c)
    \/ ReadFromFile(c)

\* The steps of ReadCLICredentials
ReadStep(c) ==
    \/ \E o \in Overrides : Call(c, o)
    \/ FetchStep(c)

\* The steps of WriteCLICredentials
WriteStep(c) ==
    \/ \E ok \in BOOLEAN : SetAccessToken(c, ok)
    \/ \E ok \in BOOLEAN : SetRefreshToken(c, ok)
    \/ \E ok \in BOOLEAN : SetUserEmail(c, ok)
    \/ \E ok \in BOOLEAN : SetExpiry(c, ok)
    \/ \E ok \in BOOLEAN : SetAuthFlow(c, ok)
    \/ WriteFileRead(c)
    \/ \E ok \in BOOLEAN : WriteFileOpen(c, ok)
    \/ \E ok \in BOOLEAN : WriteFileWrite(c, ok)

\* The steps of EnsureValidToken
RefreshStep(c) ==
    \/ Ensure(c)
    \/ \E resp \in Responses(issued + 1) : Http(c, resp)
    \/ WriteStep(c)

Next == (\E c \in Callers : ReadStep(c) \/ RefreshStep(c)) \/ Tick

Spec == Init /\ [][Next]_vars

----------------------------------------------------------------------------
(* Profile resolution over every environment: getActiveProfile as          *)
(* ReadCLICredentials calls it                                             *)

EnvChoices == {"", "staging"}
PointerChoices ==
    { PointerMissing, PointerUnreadable,
      PointerFile(<<>>), PointerFile(<<" ", "\n">>),
      PointerFile(<<"qa">>), PointerFile(<<" ", "qa", "\n">>),
      PointerFile(<<"\t", "my", " ", "qa", "\n", "\n">>) }

InitProfile ==
    /\ envProfile \in EnvChoices
    /\ homeOk \in BOOLEAN
    /\ pointer \in PointerChoices
    /\ keyring = KeyringOf([p \in Profiles |-> LoginRecord(p, FALSE, 0)])
    /\ fs = EmptyMap
    /\ now = TimeUnix(StartSeconds)
    /\ issued = 0
    /\ CallersIdle

NextProfile == \E c \in Callers : \E o \in Overrides : Call(c, o)

SpecProfile == InitProfile /\ [][NextProfile]_vars

----------------------------------------------------------------------------
(* Expiry detection over credentials around the safety margin:             *)
(* IsTokenExpired as EnsureValidToken calls it                             *)

\* Expiry times up to MaxSkew ticks around the margin, one long past, none
MaxSkew == 2
ExpiryChoices ==
    {ZeroTime, TimeUnix(0)}
    \cup {AddSeconds(TimeUnix(StartSeconds), SafetyMarginSeconds) + d :
            d \in (0 - MaxSkew)..MaxSkew}

InitExpiry ==
    /\ envProfile = ""
    /\ homeOk = TRUE
    /\ pointer = PointerMissing
    /\ keyring = KeyringOf([p \in Profiles |-> LoginRecord(p, FALSE, 0)])
    /\ fs = EmptyMap
    /\ now = TimeUnix(StartSeconds)
    /\ issued = 0
    /\ pc = [c \in Callers |-> "ensure"]
    /\ arg = [c \in Callers |-> ""]
    /\ profile = [c \in Callers |-> defaultProfile]
    /\ \E e \in [Callers -> ExpiryChoices] :
          creds = [c \in Callers |->
                     [NewCreds(InitialAccessToken(defaultProfile),
                               InitialRefreshToken(defaultProfile),
                               InitialEmail(defaultProfile))
                      EXCEPT !.SessionExpiresAt = e[c],
                             !.AuthFlowType = "user_token",
                             !.SourceProfile = defaultProfile,
                             !.StorageLocationUsed = "keyring"]]
    /\ loc = [c \in Callers |-> NoLocals]
    /\ err = [c \in Callers |-> NoErr]
    /\ after = [c \in Callers |-> {}]
    /\ reply = [c \in Callers |-> <<>>]

NextExpiry == (\E c \in Callers : Ensure(c)) \/ Tick

SpecExpiry == InitExpiry /\ [][NextExpiry]_vars

----------------------------------------------------------------------------
(* ReadCLICredentials over every stored content of the two backends        *)

RequiredKeys == {keychainAccessToken, keychainRefreshToken, keychainUserEmail}

\* A stored record of profile p: each required key absent, empty or set;
\* the optional keys absent, well-formed, or present with an expiry that is
\* no decimal number
RequiredChoices == [RequiredKeys -> {"absent", "empty", "set"}]
OptionalChoices == {"none", "valid", "garbage"}

StoredRecord(p, req, opt) ==
    LET full == LoginRecord(p, TRUE, BoundarySeconds)
        keys == {k \in RequiredKeys : req[k] # "absent"}
                \cup (IF opt = "none" THEN {}
                      ELSE {keychainSessionExpiry, keychainAuthFlowType})
    IN  [k \in keys |->
            IF k \in RequiredKeys /\ req[k] = "empty" THEN ""
            ELSE IF k = keychainSessionExpiry /\ opt = "garbage"
                 THEN <<"s", "o", "o", "n">>
            ELSE full[k]]

\* A credential file: missing, unreadable, not base64, not JSON, or a record
FileChoices == {"missing", "unreadable", "notbase64", "notjson", "record"}

StoredFiles(kind, records) ==
    IF kind = "missing" THEN EmptyMap
    ELSE [path \in DOMAIN FilesOf(records) |->
            LET c == FilesOf(records)[path]
            IN  IF kind = "unreadable" THEN [c EXCEPT !.perm = FALSE]
                ELSE IF kind = "notbase64"
                     THEN [c EXCEPT !.b64 = FALSE, !.json = FALSE, !.data = EmptyMap]
                ELSE IF kind = "notjson"
                     THEN [c EXCEPT !.json = FALSE, !.data = EmptyMap]
                ELSE c]

Reader == "c1"

InitRead ==
    /\ envProfile = ""
    /\ homeOk \in BOOLEAN
    /\ pointer = PointerMissing
    /\ \E kreq \in RequiredChoices, kopt \in OptionalChoices :
          keyring = KeyringOf([p \in Profiles |-> StoredRecord(p, kreq, kopt)])
    /\ \E kind \in FileChoices, freq \in RequiredChoices, fopt \in OptionalChoices :
          fs = StoredFiles(kind, [p \in Profiles |-> StoredRecord(p, freq, fopt)])
    /\ now = TimeUnix(StartSeconds)
    /\ issued = 0
    /\ CallersIdle

NextRead == ReadStep(Reader)

SpecRead == InitRead /\ [][NextRead]_vars

----------------------------------------------------------------------------
(* EnsureValidToken over every credential it can be given, every content   *)
(* of the two backends and every answer of the token endpoint              *)

\* The answers of the n-th exchange, with further statuses inside and
\* outside 2xx
RefreshResponses(n) ==
    Responses(n) \cup
    { StatusResponse(201, "created"), StatusResponse(204, ""),
      StatusResponse(302, "moved"), StatusResponse(401, "unauthorized") }

\* A key of the credential file that is none of the five credential keys
UnrelatedKey == "idp_token_endpoint"
UnrelatedValue(p) == "https://idp/" \o p

\* The credential handed to EnsureValidToken: nil, or a credential read
\* earlier, with or without refresh token, expiry and auth flow type
CredentialChoices ==
    {NilCreds} \cup
    { [NewCreds("A", rt, "e@x.com")
       EXCEPT !.SessionExpiresAt = e, !.AuthFlowType = flow,
              !.SourceProfile = sp, !.StorageLocationUsed = sl] :
        rt \in {"", "R"},
        e \in {ZeroTime, TimeUnix(StartSeconds), TimeUnix(BoundarySeconds)},
        flow \in {"", "user_token"},
        sp \in {"", "prod"},
        sl \in {"keyring", "file"} }

InitRefresh ==
    /\ envProfile = ""
    /\ homeOk \in BOOLEAN
    /\ pointer = PointerMissing
    /\ LET records == [p \in Profiles |-> LoginRecord(p, TRUE, BoundarySeconds)]
           filed == [p \in Profiles |->
                       Put(records[p], UnrelatedKey, UnrelatedValue(p))]
       IN  /\ keyring \in {EmptyMap, KeyringOf(records)}
           /\ \E kind \in FileChoices : fs = StoredFiles(kind, filed)
    /\ now = TimeUnix(StartSeconds)
    /\ issued = 0
    /\ pc = [c \in Callers |-> IF c = Reader THEN "ensure" ELSE "idle"]
    /\ arg = [c \in Callers |-> ""]
    /\ profile = [c \in Callers |-> ""]
    /\ \E cr \in CredentialChoices :
          creds = [c \in Callers |-> IF c = Reader THEN cr ELSE NilCreds]
    /\ loc = [c \in Callers |-> NoLocals]
    /\ err = [c \in Callers |-> NoErr]
    /\ after = [c \in Callers |-> {}]
    /\ reply = [c \in Callers |-> <<>>]

NextRefresh ==
    \/ Ensure(Reader)
    \/ \E resp \in RefreshResponses(issued + 1) : Http(Reader, resp)
    \/ WriteStep(Reader)
    \/ Tick

SpecRefresh == InitRefresh /\ [][NextRefresh]_vars

----------------------------------------------------------------------------
(* WriteCLICredentials called on its own, over every credential it can be  *)
(* given and every content of the two backends                             *)

InitWrite ==
    /\ envProfile = ""
    /\ homeOk \in BOOLEAN
    /\ pointer = PointerMissing
    /\ LET records == [p \in Profiles |-> LoginRecord(p, TRUE, BoundarySeconds)]
           filed == [p \in Profiles |->
                       Put(records[p], UnrelatedKey, UnrelatedValue(p))]
       IN  /\ keyring \in {EmptyMap, KeyringOf(records)}
           /\ \E kind \in FileChoices : fs = StoredFiles(kind, filed)
    /\ now = TimeUnix(StartSeconds)
    /\ issued = 0
    /\ pc = [c \in Callers |-> IF c = Reader THEN "write" ELSE "idle"]
    /\ arg = [c \in Callers |-> ""]
    /\ profile = [c \in Callers |-> ""]
    /\ \E cr \in CredentialChoices :
          creds = [c \in Callers |-> IF c = Reader THEN cr ELSE NilCreds]
    /\ loc = [c \in Callers |-> NoLocals]
    /\ err = [c \in Callers |-> NoErr]
    /\ after = [c \in Callers |-> {}]
    /\ reply = [c \in Callers |-> <<>>]

NextWrite ==
    \/ WriteCLICredentials(Reader)
    \/ WriteStep(Reader)

SpecWrite == InitWrite /\ [][NextWrite]_vars

----------------------------------------------------------------------------
(* A caller that reads and then either returns IsAuthenticated or goes on   *)
(* with EnsureValidToken, over every stored content, the file holding      *)
(* other values than the keyring                                           *)

\* The file's copy of a record: values other than the keyring's, and an
\* expiry already past
FiledCopy(r) ==
    [k \in DOMAIN r |->
        IF r[k] = "" THEN ""
        ELSE IF k = keychainSessionExpiry
             THEN (IF ParseInt(r[k]).ok THEN FormatInt(StartSeconds) ELSE r[k])
        ELSE r[k] \o "-file"]

InitAuth ==
    /\ envProfile = ""
    /\ homeOk \in BOOLEAN
    /\ pointer = PointerMissing
    /\ \E kreq \in RequiredChoices, kopt \in OptionalChoices :
          keyring = KeyringOf([p \in Profiles |-> StoredRecord(p, kreq, kopt)])
    /\ \E kind \in FileChoices, freq \in RequiredChoices, fopt \in OptionalChoices :
          fs = StoredFiles(kind, [p \in Profiles |->
                                    FiledCopy(StoredRecord(p, freq, fopt))])
    /\ now = TimeUnix(StartSeconds)
    /\ issued = 0
    /\ CallersIdle

NextAuth ==
    \/ ReadStep(Reader)
    \/ IsAuthenticated(Reader)
    \/ RefreshStep(Reader)
    \/ Tick

SpecAuth == InitAuth /\ [][NextAuth]_vars

----------------------------------------------------------------------------
(* Resolutions under profile names of every shape: the names the login      *)
(* stored, and names that are path elements with a meaning                 *)

ProfileNames == Profiles \cup {"..", "."}

InitNames ==
    /\ envProfile = ""
    /\ homeOk = TRUE
    /\ pointer = PointerMissing
    /\ \E layout \in Layouts :
          LET records == [p \in Profiles |->
                             LoginRecord(p, TRUE, BoundarySeconds)]
          IN  /\ keyring = IF layout \in {"keyring", "both"}
                           THEN KeyringOf(records) ELSE EmptyMap
              /\ fs = IF layout \in {"file", "both"}
                      THEN FilesOf(records) ELSE EmptyMap
    /\ now = TimeUnix(StartSeconds)
    /\ issued = 0
    /\ CallersIdle

NextNames ==
    \/ \E o \in ProfileNames : Call(Reader, o)
    \/ FetchStep(Reader)
    \/ RefreshStep(Reader)
    \/ Tick

SpecNames == InitNames /\ [][NextNames]_vars

----------------------------------------------------------------------------
(* A resolution whose calls all return: every keyring call, file system    *)
(* call and the HTTP exchange (by its 30 second timeout at the latest)     *)
(* comes back, so a resolution that has a step to take takes it            *)

Running(c) == FetchStep(c) \/ RefreshStep(c)

\* The login's records, without expiry or with one already inside the margin
InitReturns ==
    /\ envProfile = ""
    /\ homeOk = TRUE
    /\ pointer = PointerMissing
    /\ \E layout \in Layouts, hasExpiry \in BOOLEAN :
          LET records == [p \in Profiles |->
                             LoginRecord(p, hasExpiry, StartSeconds)]
          IN  /\ keyring = IF layout \in {"keyring", "both"}
                           THEN KeyringOf(records) ELSE EmptyMap
              /\ fs = IF layout \in {"file", "both"}
                      THEN FilesOf(records) ELSE EmptyMap
    /\ now = TimeUnix(StartSeconds)
    /\ issued = 0
    /\ CallersIdle

NextReturns ==
    \/ Call(Reader, "")
    \/ Running(Reader)

SpecReturns == InitReturns /\ [][NextReturns]_vars /\ WF_vars(Running(Reader))

----------------------------------------------------------------------------
(* Properties                                                              *)

Done(c) == pc[c] \in Terminal
Store == <<keyring, fs>>
MarginTicks == SafetyMarginSeconds * TicksPerSecond

\* C1: single-flight refresh: callers resolving the same profile never have
\* two refresh exchanges in flight at once; they share one exchange.
C1_SingleFlight ==
    \A c, d \in Callers :
        (c # d /\ profile[c] = profile[d]) => ~(pc[c] = "http" /\ pc[d] = "http")

\* C2: write-back visibility: once a refresh of profile P has returned
\* success, a read of P called afterwards, with no other writer, returns the
\* refreshed access token, refresh token and expiry (the expiry compared in
\* whole seconds, the resolution of the stored value).
C2_WriteBackVisible ==
    \A c, d \in Callers :
        (/\ c # d
         /\ pc[c] = "refreshed"
         /\ c \in after[d]
         /\ profile[d] = profile[c]
         /\ pc[d] = "ensure")
        => /\ creds[d].AccessToken = creds[c].AccessToken
           /\ creds[d].RefreshToken = creds[c].RefreshToken
           /\ IsZero(creds[d].SessionExpiresAt) = IsZero(creds[c].SessionExpiresAt)
           /\ Unix(creds[d].SessionExpiresAt) = Unix(creds[c].SessionExpiresAt)

\* C3: a failed refresh grant (transport error, timeout, status other than
\* 200, undecodable body) leaves the keyring and the files as they were: no
\* step of the failing RefreshAccessToken call changes either backend.
C3_FailedGrantLeavesStore ==
    [][\A c \in Callers :
          (\/ pc[c] = "ensure" /\ pc'[c] \in {"http", "refresh_failed"}
           \/ pc[c] = "http" /\ pc'[c] = "refresh_failed")
          => (keyring' = keyring /\ fs' = fs)]_vars

\* A grant that failed at the exchange, with a stored record to preserve
C3_Witness ==
    \E c \in Callers :
        /\ pc[c] = "refresh_failed"
        /\ Head(err[c]) \in {"execute request: ", "token refresh failed with status ",
                             "decode response: "}
        /\ Store # <<EmptyMap, EmptyMap>>

\* The profile a call resolves to when neither the environment variable nor
\* the pointer file is set
ExpectedProfile(c) == IF arg[c] # "" THEN arg[c] ELSE defaultProfile
ProfileFailed(c) ==
    pc[c] = "read_failed" /\ Head(err[c]) = "determine active profile: "
ReadReturned(c) == pc[c] \in {"ensure", "read_failed"} /\ ~ProfileFailed(c)

StoredInKeyring(p, k) == Has(keyring, <<getKeyringServiceName(p), k>>)
KeyringValue(p, k) == keyring[<<getKeyringServiceName(p), k>>]
KeyringComplete(p) == \A k \in RequiredKeys : StoredInKeyring(p, k)
KeyringReason(p) ==
    IF ~StoredInKeyring(p, keychainAccessToken)
    THEN <<"get access_token: ", "secret not found in keyring">>
    ELSE IF ~StoredInKeyring(p, keychainRefreshToken)
    THEN <<"get refresh_token: ", "secret not found in keyring">>
    ELSE <<"get user_email: ", "secret not found in keyring">>

PathOf(p) == CredentialsPath(p)
FileData(p) == fs[PathOf(p)].data
FileDecodes(p) ==
    /\ homeOk
    /\ Has(fs, PathOf(p))
    /\ fs[PathOf(p)].perm /\ fs[PathOf(p)].b64 /\ fs[PathOf(p)].json
FileComplete(p) ==
    /\ FileDecodes(p)
    /\ \A k \in RequiredKeys : Has(FileData(p), k) /\ FileData(p)[k] # ""
FileReason(p) ==
    IF ~homeOk THEN <<"get file path: ", "get home dir: ">>
    ELSE IF ~Has(fs, PathOf(p)) THEN <<"credentials file not found at ", PathOf(p)>>
    ELSE IF ~fs[PathOf(p)].perm THEN <<"read file: ">>
    ELSE IF ~fs[PathOf(p)].b64 THEN <<"decode base64: ">>
    ELSE IF ~fs[PathOf(p)].json THEN <<"unmarshal json: ">>
    ELSE IF ~Has(FileData(p), "access_token") \/ FileData(p)["access_token"] = ""
    THEN <<"access_token not found in file">>
    ELSE IF ~Has(FileData(p), "refresh_token") \/ FileData(p)["refresh_token"] = ""
    THEN <<"refresh_token not found in file">>
    ELSE <<"user_email not found in file">>

\* C4: read fallback: the keyring first; when all its required entries are
\* retrievable, its credential with StorageLocationUsed "keyring"; on any
\* keyring failure the file's credential with StorageLocationUsed "file";
\* when both fail one error naming both reasons; SourceProfile is the
\* resolved profile in every success.
C4_ReadFallback ==
    \A c \in Callers :
        ReadReturned(c) =>
            LET p == ExpectedProfile(c)
            IN  IF KeyringComplete(p)
                THEN /\ pc[c] = "ensure"
                     /\ creds[c].StorageLocationUsed = "keyring"
                     /\ creds[c].AccessToken = KeyringValue(p, keychainAccessToken)
                     /\ creds[c].RefreshToken = KeyringValue(p, keychainRefreshToken)
                     /\ creds[c].Email = KeyringValue(p, keychainUserEmail)
                     /\ creds[c].SourceProfile = p
                ELSE IF FileComplete(p)
                THEN /\ pc[c] = "ensure"
                     /\ creds[c].StorageLocationUsed = "file"
                     /\ creds[c].AccessToken = FileData(p)["access_token"]
                     /\ creds[c].RefreshToken = FileData(p)["refresh_token"]
                     /\ creds[c].Email = FileData(p)["user_email"]
                     /\ creds[c].SourceProfile = p
                ELSE /\ pc[c] = "read_failed"
                     /\ creds[c].nil
                     /\ Mentions(err[c], KeyringReason(p))
                     /\ Mentions(err[c], FileReason(p))

\* A read served from the file after the keyring gave its access token but
\* lacked another required entry
C4_Witness ==
    \E c \in Callers :
        /\ pc[c] = "ensure"
        /\ creds[c].StorageLocationUsed = "file"
        /\ StoredInKeyring(profile[c], keychainAccessToken)
        /\ ~KeyringComplete(profile[c])

\* C5: every credential a successful ReadCLICredentials returns has a
\* non-empty AccessToken, RefreshToken and Email.
C5_FullyPopulated ==
    \A c \in Callers :
        pc[c] = "ensure" =>
            /\ creds[c].AccessToken # ""
            /\ creds[c].RefreshToken # ""
            /\ creds[c].Email # ""

\* The pointer file's text without its leading and trailing white space
TrimmedText(data) ==
    LET solid == {i \in 1..Len(data) : data[i] \notin WhiteSpace}
    IN  IF solid = {} THEN ""
        ELSE Join(SubSeq(data,
                         CHOOSE i \in solid : \A j \in solid : i <= j,
                         CHOOSE i \in solid : \A j \in solid : i >= j))

Called(c) == pc[c] # "idle"
NoOverrideNoEnv(c) == arg[c] = "" /\ envProfile = ""
Resolved(c, name) == ~ProfileFailed(c) /\ pc[c] # "read_failed" /\ profile[c] = name

\* C6: profile precedence: the override wins; without it the environment
\* variable; without both the trimmed content of the pointer file (when that
\* is not empty); with none of them "default".
C6_ProfilePrecedence ==
    \A c \in Callers :
        Called(c) =>
            /\ arg[c] # "" => Resolved(c, arg[c])
            /\ (arg[c] = "" /\ envProfile # "") => Resolved(c, envProfile)
            /\ (/\ NoOverrideNoEnv(c) /\ homeOk /\ pointer.state = "ok"
                /\ TrimmedText(pointer.data) # "")
               => Resolved(c, TrimmedText(pointer.data))
            /\ (NoOverrideNoEnv(c) /\ homeOk /\ pointer.state = "missing")
               => Resolved(c, defaultProfile)

\* All three sources set to distinct values, and the override returned
C6_Witness ==
    \E c \in Callers :
        /\ Called(c)
        /\ arg[c] = "prod" /\ envProfile = "staging"
        /\ homeOk /\ pointer.state = "ok" /\ TrimmedText(pointer.data) = "my qa"
        /\ profile[c] = "prod"

\* C7: a pointer file that exists but is empty or only white space resolves
\* to "default" (when override and environment variable are empty).
C7_BlankPointerIsDefault ==
    \A c \in Callers :
        (/\ Called(c) /\ NoOverrideNoEnv(c) /\ homeOk
         /\ pointer.state = "ok" /\ TrimmedText(pointer.data) = "")
        => Resolved(c, defaultProfile)

\* C8 as claimed: profile resolution fails only when the pointer file exists
\* and cannot be read.
C8_FailsOnlyOnUnreadablePointer ==
    \A c \in Callers :
        (Called(c) /\ ProfileFailed(c)) => pointer.state = "unreadable"

\* C8, amended: profile resolution fails exactly when override and
\* environment variable are empty and either the home directory lookup fails
\* or the pointer file exists and cannot be read; a missing pointer file
\* yields "default".
C8_FailsOnHomeOrPointer ==
    \A c \in Callers :
        Called(c) =>
            /\ ProfileFailed(c) <=>
                  (NoOverrideNoEnv(c) /\ (~homeOk \/ pointer.state = "unreadable"))
            /\ ~ProfileFailed(c) => pc[c] = "get_access_token"
            /\ (NoOverrideNoEnv(c) /\ homeOk /\ pointer.state = "missing")
               => Resolved(c, defaultProfile)

\* A resolution that failed on the home directory lookup, the pointer file missing
C8_Witness ==
    \E c \in Callers :
        Called(c) /\ ProfileFailed(c) /\ ~homeOk /\ pointer.state = "missing"

\* C9: expiry boundary: EnsureValidToken takes a credential whose expiry is
\* set as expired when the expiry is earlier than now + 5 minutes, and as
\* valid when it is later.
C9_ExpiryBoundary ==
    [][\A c \in Callers :
          (/\ pc[c] = "ensure" /\ pc'[c] # "ensure"
           /\ ~IsZero(creds[c].SessionExpiresAt))
          => /\ creds[c].SessionExpiresAt < now + MarginTicks => pc'[c] = "http"
             /\ creds[c].SessionExpiresAt > now + MarginTicks => pc'[c] = "valid"]_vars

\* One credential expiring in 4m59s refreshed, another expiring in 5m01s kept
C9_Witness ==
    \E c, d \in Callers :
        /\ pc[c] = "http"
        /\ creds[c].SessionExpiresAt = AddSeconds(now, SafetyMarginSeconds - 1)
        /\ pc[d] = "valid"
        /\ creds[d].SessionExpiresAt = AddSeconds(now, SafetyMarginSeconds + 1)

\* C10: a credential without expiry is never expired, and EnsureValidToken
\* on it returns success with no HTTP exchange and no store write.
C10_NoExpiryNoRefresh ==
    /\ [](\A c \in Callers :
            (~creds[c].nil /\ IsZero(creds[c].SessionExpiresAt))
            => ~IsTokenExpired(creds[c], now))
    /\ [][\A c \in Callers :
            (/\ pc[c] = "ensure" /\ pc'[c] # "ensure"
             /\ ~creds[c].nil /\ IsZero(creds[c].SessionExpiresAt))
            => /\ pc'[c] = "valid"
               /\ err'[c] = NoErr
               /\ creds'[c] = creds[c]
               /\ keyring' = keyring /\ fs' = fs
               /\ issued' = issued]_vars

\* A credential without expiry returned as valid by EnsureValidToken
C10_Witness ==
    \E c \in Callers :
        pc[c] = "valid" /\ ~creds[c].nil /\ IsZero(creds[c].SessionExpiresAt)

\* The positions inside writeToKeyring and inside writeToFile
KeyringRequired == {"set_access_token", "set_refresh_token", "set_user_email"}
KeyringOptional == {"set_expiry", "set_auth_flow"}
FileSteps == {"write_file_read", "write_file_open", "write_file_write"}
Moves(c) == pc'[c] # pc[c]

\* C11: write-back targets the backend the credential was read from: the
\* refresh of a credential read from the file leaves the keyring unmodified
\* and ends with the refreshed record in the file; the refresh of a
\* credential read from the keyring ends with the record in the keyring.
C11_WriteBackTargetsSource ==
    [][\A c \in Callers :
          (Moves(c) /\ pc[c] \in KeyringRequired \cup KeyringOptional \cup FileSteps)
          => /\ creds[c].StorageLocationUsed = "file"
                => /\ keyring' = keyring
                   /\ pc'[c] = "refreshed"
                      => fs'[PathOf(WriteProfile(c))].data["access_token"]
                            = creds[c].AccessToken
             /\ (creds[c].StorageLocationUsed = "keyring" /\ pc'[c] = "refreshed")
                => keyring'[<<WriteService(c), keychainAccessToken>>]
                      = creds[c].AccessToken]_vars

C13_FileWriteAtomic ==
    \A p \in Profiles :
        Has(fs, PathOf(p)) =>
            LET r == readFromFile(p)
            IN  r.err = NoErr \/ Head(r.err) \notin {"decode base64: ", "unmarshal json: "}

AfterGrant == KeyringRequired \cup KeyringOptional \cup FileSteps
Granted(c) == pc[c] = "http" /\ pc'[c] = "set_access_token"
Result(c) == reply'[c][1]

\* C15: on a successful refresh AccessToken becomes the response's
\* access_token; RefreshToken becomes the response's refresh_token when there
\* is one and stays as it was when there is none; the credential is not
\* changed again before RefreshAccessToken returns.
C15_TokensFromResponse ==
    [][\A c \in Callers :
          /\ Granted(c)
             => /\ creds'[c].AccessToken = Result(c).access_token
                /\ Result(c).refresh_token # ""
                   => creds'[c].RefreshToken = Result(c).refresh_token
                /\ Result(c).refresh_token = ""
                   => creds'[c].RefreshToken = creds[c].RefreshToken
          /\ (Moves(c) /\ pc[c] \in AfterGrant) => creds'[c] = creds[c]]_vars

\* A refresh that returned success on a response without refresh_token: the
\* new access token with the refresh token the call started with
C15_Witness ==
    \E c \in Callers :
        /\ pc[c] = "refreshed"
        /\ reply[c] # <<>>
        /\ reply[c][1].refresh_token = ""
        /\ reply[c][1].access_token = NewAccessToken(1)
        /\ creds[c].AccessToken = NewAccessToken(1)
        /\ creds[c].RefreshToken = "R"

\* C16: on a successful refresh (a 200 response with an access token) the
\* expiry is now + expires_in when the response has a lifetime, and
\* otherwise the refreshed credential has no expiry, in memory and in the
\* record written back.
C16_ExpiryRecomputedOrUnset ==
    [][\A c \in Callers :
          /\ (Granted(c) /\ Result(c).access_token # "")
             => IF Result(c).expires_in > 0
                THEN creds'[c].SessionExpiresAt
                        = AddSeconds(now, Result(c).expires_in)
                ELSE IsZero(creds'[c].SessionExpiresAt)
          /\ (/\ Moves(c) /\ pc'[c] = "refreshed"
              /\ reply[c][1].access_token # "" /\ reply[c][1].expires_in <= 0)
             => IF pc[c] \in FileSteps
                THEN ~Has(fs'[PathOf(WriteProfile(c))].data, keychainSessionExpiry)
                ELSE ~Has(keyring', <<WriteService(c), keychainSessionExpiry>>)]_vars

\* C17: Expired -> Valid: when EnsureValidToken returns success after a
\* refresh (on a 200 response with an access token), IsTokenExpired on the
\* credential is false at that moment.
C17_RefreshedIsValid ==
    [][\A c \in Callers :
          (Moves(c) /\ pc'[c] = "refreshed" /\ reply[c][1].access_token # "")
          => ~IsTokenExpired(creds'[c], now')]_vars

\* The progress of a call of EnsureValidToken
Rank(label) ==
    IF label = "ensure" THEN 0
    ELSE IF label = "http" THEN 1
    ELSE IF label = "set_access_token" THEN 2
    ELSE IF label = "set_refresh_token" THEN 3
    ELSE IF label = "set_user_email" THEN 4
    ELSE IF label = "set_expiry" THEN 5
    ELSE IF label = "set_auth_flow" THEN 6
    ELSE IF label = "write_file_read" THEN 7
    ELSE IF label = "write_file_open" THEN 8
    ELSE IF label = "write_file_write" THEN 9
    ELSE 10
GrantError(r) == ~r.answered \/ r.status # 200 \/ ~r.decodes

C19_NonSuccessStatusFails ==
    [][\A c \in Callers :
          (/\ pc[c] = "http" /\ Moves(c)
           /\ Result(c).answered /\ Result(c).status \notin 200..299)
          => /\ pc'[c] = "refresh_failed"
             /\ Mentions(err'[c], <<ToString(Result(c).status)>>)
             /\ Mentions(err'[c], <<Result(c).body>>)
             /\ creds'[c] = creds[c]
             /\ keyring' = keyring /\ fs' = fs]_vars

\* A refresh refused with status 401, the body in the error
C19_Witness ==
    \E c \in Callers :
        /\ pc[c] = "refresh_failed"
        /\ reply[c] # <<>>
        /\ reply[c][1].status = 401
        /\ Mentions(err[c], <<"unauthorized">>)
        /\ ~creds[c].nil

\* C20: RefreshAccessToken never writes to the store: between its call and
\* its return neither the keyring nor a file changes.
C20_RefreshDoesNotPersist ==
    [][\A c \in Callers :
          (Moves(c) /\ pc[c] \in {"http"} \cup AfterGrant)
          => (keyring' = keyring /\ fs' = fs)]_vars

FullyPopulated(cr) ==
    ~cr.nil /\ cr.AccessToken # "" /\ cr.RefreshToken # "" /\ cr.Email # ""

\* The keyring took the whole record of cr for profile p, or refused it
\* from the first entry on
KeyringTook(p, cr) ==
    /\ KeyringComplete(p)
    /\ KeyringValue(p, keychainAccessToken) = cr.AccessToken
    /\ KeyringValue(p, keychainRefreshToken) = cr.RefreshToken
    /\ KeyringValue(p, keychainUserEmail) = cr.Email
KeyringRefused(p, cr) ==
    StoredInKeyring(p, keychainAccessToken)
    => KeyringValue(p, keychainAccessToken) # cr.AccessToken

\* C21: round trip: after WriteCLICredentials returned success for a fully
\* populated credential of profile P (the keyring having taken the record,
\* or refused it as a whole), a ReadCLICredentials of P called afterwards
\* returns a credential with the same AccessToken, RefreshToken and Email.
C21_RoundTrip ==
    \A c, d \in Callers :
        (/\ c # d
         /\ pc[c] = "refreshed"
         /\ FullyPopulated(creds[c])
         /\ KeyringTook(WriteProfile(c), creds[c])
            \/ KeyringRefused(WriteProfile(c), creds[c])
         /\ c \in after[d]
         /\ profile[d] = WriteProfile(c)
         /\ pc[d] \in {"ensure", "read_failed"})
        => /\ pc[d] = "ensure"
           /\ creds[d].AccessToken = creds[c].AccessToken
           /\ creds[d].RefreshToken = creds[c].RefreshToken
           /\ creds[d].Email = creds[c].Email

\* C22: malformed file input is an error value: a profile file that is
\* missing, unreadable, not base64, not a JSON string map, or lacks a
\* non-empty access_token, refresh_token or user_email makes readFromFile
\* return an error naming the defect and no credential; a complete file
\* makes it return a credential and no error.
C22_MalformedFileIsError ==
    \A p \in Profiles :
        LET r == readFromFile(p)
        IN  IF FileComplete(p)
            THEN r.err = NoErr /\ FullyPopulated(r.creds)
            ELSE /\ r.err # NoErr
                 /\ r.creds = NilCreds
                 /\ Mentions(r.err, FileReason(p))

\* A read that ended in an error on a file whose access_token is empty, or
\* on a file that is not base64
C22_Witness ==
    \E c \in Callers :
        /\ pc[c] = "read_failed"
        /\ \/ /\ FileDecodes(profile[c])
              /\ Has(FileData(profile[c]), "access_token")
              /\ FileData(profile[c])["access_token"] = ""
              /\ Mentions(err[c], <<"access_token not found in file">>)
           \/ /\ homeOk /\ Has(fs, PathOf(profile[c]))
              /\ ~fs[PathOf(profile[c])].b64
              /\ Mentions(err[c], <<"decode base64: ">>)

Answered(c) == pc[c] \in {"authenticated", "unauthenticated"}
ReadSteps ==
    {"idle", "get_access_token", "get_refresh_token", "get_user_email",
     "get_expiry", "get_auth_flow", "read_file"}

C24_OnlyTokensChange ==
    /\ [](\A c \in Callers :
            pc[c] \in {"ensure", "http", "valid", "refreshed", "refresh_failed",
                       "write_failed"} \cup AfterGrant
            => /\ creds[c].Email = InitialEmail(profile[c])
               /\ creds[c].AuthFlowType = "user_token")
    /\ []((\A c \in Callers : pc[c] \in Terminal \cup {"idle"})
          => \A p \in Profiles :
                /\ StoredInKeyring(p, keychainUserEmail)
                   => KeyringValue(p, keychainUserEmail) = InitialEmail(p)
                /\ StoredInKeyring(p, keychainAuthFlowType)
                   => KeyringValue(p, keychainAuthFlowType) = "user_token"
                /\ Has(fs, PathOf(p))
                   => /\ Has(fs[PathOf(p)].data, keychainUserEmail)
                      /\ fs[PathOf(p)].data[keychainUserEmail] = InitialEmail(p)
                      /\ Has(fs[PathOf(p)].data, keychainAuthFlowType)
                      /\ fs[PathOf(p)].data[keychainAuthFlowType] = "user_token")
    /\ [][DOMAIN keyring \subseteq DOMAIN keyring'
          /\ DOMAIN fs \subseteq DOMAIN fs']_vars

\* What the login stored for profile q
ServiceEntries(kr, q) ==
    [k \in {k \in CredentialKeys : Has(kr, <<getKeyringServiceName(q), k>>)} |->
        kr[<<getKeyringServiceName(q), k>>]]
FileOf(files, q) ==
    IF Has(files, CredentialsPath(q)) THEN <<files[CredentialsPath(q)]>> ELSE <<>>
HasRead(c) ==
    pc[c] \in {"ensure", "http", "valid", "refreshed", "refresh_failed",
               "write_failed"} \cup AfterGrant

\* C25: profile isolation: a resolution under profile name P returns
\* nothing stored for another name Q and changes neither the keyring entries
\* nor the file of Q; the default profile has the bare service name and the
\* base file path.
C25_ProfileIsolation ==
    /\ [](/\ getKeyringServiceName(defaultProfile) = keychainServicePrefix
          /\ CredentialsPath(defaultProfile)
                = HomeDir \o "/.stackit/cli-provider-auth-storage.txt")
    /\ [](\A c \in Callers : \A q \in Profiles :
            (HasRead(c) /\ q # profile[c])
            => /\ creds[c].AccessToken # InitialAccessToken(q)
               /\ creds[c].RefreshToken # InitialRefreshToken(q)
               /\ creds[c].Email # InitialEmail(q))
    /\ [][\A c \in Callers : \A q \in ProfileNames :
            (Moves(c) /\ pc[c] # "idle" /\ q # profile[c])
            => /\ ServiceEntries(keyring', q) = ServiceEntries(keyring, q)
               /\ FileOf(fs', q) = FileOf(fs, q)]_vars

\* C26: the store is mutated only on the refresh write-back path: every
\* step that changes the keyring or a file, or makes an HTTP exchange, is a
\* step of RefreshAccessToken on an expired credential; the steps of
\* ReadCLICredentials and IsAuthenticated, and EnsureValidToken on a
\* credential that is not expired, leave both backends as they are.
C26_OnlyWriteBackMutates ==
    [][/\ (keyring' # keyring \/ fs' # fs \/ issued' # issued \/ reply' # reply)
          => \E c \in Callers : Moves(c) /\ pc[c] \in {"http"} \cup AfterGrant
       /\ \A c \in Callers :
            (/\ pc[c] = "ensure" /\ Moves(c) /\ ~Answered(c)'
             /\ ~IsTokenExpired(creds[c], now))
            => /\ pc'[c] = "valid"
               /\ err'[c] = NoErr
               /\ creds'[c] = creds[c]]_vars

\* EnsureValidToken returned on a credential whose expiry is set and beyond
\* the margin, nothing requested
C26_Witness ==
    \E c \in Callers :
        /\ pc[c] = "valid"
        /\ ~IsZero(creds[c].SessionExpiresAt)
        /\ reply[c] = <<>>
        /\ KeyringComplete(profile[c])

\* The field of a credential that a stored key fills
TextKeys ==
    {keychainAccessToken, keychainRefreshToken, keychainUserEmail, keychainAuthFlowType}
FieldOf(cr, k) ==
    IF k = keychainAccessToken THEN cr.AccessToken
    ELSE IF k = keychainRefreshToken THEN cr.RefreshToken
    ELSE IF k = keychainUserEmail THEN cr.Email
    ELSE cr.AuthFlowType
FromKeyring(p, cr) ==
    /\ \A k \in TextKeys :
          FieldOf(cr, k) # ""
          => StoredInKeyring(p, k) /\ KeyringValue(p, k) = FieldOf(cr, k)
    /\ ~IsZero(cr.SessionExpiresAt)
       => /\ StoredInKeyring(p, keychainSessionExpiry)
          /\ KeyringValue(p, keychainSessionExpiry) = FormatInt(Unix(cr.SessionExpiresAt))
FromFile(p, cr) ==
    /\ FileDecodes(p)
    /\ \A k \in TextKeys :
          FieldOf(cr, k) # ""
          => Has(FileData(p), k) /\ FileData(p)[k] = FieldOf(cr, k)
    /\ ~IsZero(cr.SessionExpiresAt)
       => /\ Has(FileData(p), keychainSessionExpiry)
          /\ FileData(p)[keychainSessionExpiry] = FormatInt(Unix(cr.SessionExpiresAt))
NothingFromKeyring(p, cr) ==
    /\ \A k \in TextKeys :
          (FieldOf(cr, k) # "" /\ StoredInKeyring(p, k))
          => KeyringValue(p, k) # FieldOf(cr, k)
    /\ (~IsZero(cr.SessionExpiresAt) /\ StoredInKeyring(p, keychainSessionExpiry))
       => KeyringValue(p, keychainSessionExpiry) # FormatInt(Unix(cr.SessionExpiresAt))
NothingFromFile(p, cr) ==
    FileDecodes(p)
    => /\ \A k \in TextKeys :
             (FieldOf(cr, k) # "" /\ Has(FileData(p), k))
             => FileData(p)[k] # FieldOf(cr, k)
       /\ (~IsZero(cr.SessionExpiresAt) /\ Has(FileData(p), keychainSessionExpiry))
          => FileData(p)[keychainSessionExpiry] # FormatInt(Unix(cr.SessionExpiresAt))

\* C28: a successful read returns a credential taken from one backend only:
\* every field of a file fallback, required or optional, is the file's
\* value and none is the keyring's, and every field of a keyring read is
\* the keyring's and none the file's.
C28_OneBackendOnly ==
    \A c \in Callers :
        pc[c] = "ensure" =>
            /\ creds[c].StorageLocationUsed \in {"keyring", "file"}
            /\ creds[c].StorageLocationUsed = "file"
               => /\ FromFile(profile[c], creds[c])
                  /\ NothingFromKeyring(profile[c], creds[c])
            /\ creds[c].StorageLocationUsed = "keyring"
               => /\ FromKeyring(profile[c], creds[c])
                  /\ NothingFromFile(profile[c], creds[c])

\* A file fallback after the keyring had given access token and refresh
\* token and holds an expiry, the user_email entry missing
C28_Witness ==
    \E c \in Callers :
        /\ pc[c] = "ensure"
        /\ creds[c].StorageLocationUsed = "file"
        /\ StoredInKeyring(profile[c], keychainAccessToken)
        /\ KeyringValue(profile[c], keychainAccessToken) # ""
        /\ StoredInKeyring(profile[c], keychainRefreshToken)
        /\ ~StoredInKeyring(profile[c], keychainUserEmail)
        /\ StoredInKeyring(profile[c], keychainSessionExpiry)
        /\ ~IsZero(creds[c].SessionExpiresAt)

\* RefreshAccessToken: the form it posts to the token endpoint
cliClientID == "stackit-cli-0000-0000-000000000001"
Request(c) ==
    [grant_type |-> "refresh_token",
     refresh_token |-> creds[c].RefreshToken,
     client_id |-> cliClientID]

\* The scenario's resolution: profile "default", nothing in the keyring, the
\* credential read from the file with refresh token "R", email "e@x.com"
\* and an expiry less than the safety margin away
Scenario(c) ==
    /\ profile[c] = defaultProfile
    /\ keyring = EmptyMap
    /\ ~creds[c].nil
    /\ creds[c].StorageLocationUsed = "file"
    /\ creds[c].RefreshToken = "R"
    /\ creds[c].Email = "e@x.com"
ScenarioResponse == JsonResponse("A2", "", 3600)

\* C27: with profile "default", no keyring, and the file holding access
\* token "A", refresh token "R", email "e@x.com" and an expiry less than five
\* minutes away, EnsureValidToken after the read goes on to one refresh
\* request carrying refresh_token "R"; after the response {access_token
\* "A2", expires_in 3600} and the write-back the file holds access_token
\* "A2", refresh_token "R", user_email "e@x.com", and the caller's
\* credential has AccessToken "A2".
C27_Scenario ==
    /\ [][\A c \in Callers :
            (/\ Scenario(c) /\ pc[c] = "ensure" /\ Moves(c)
             /\ creds[c].AccessToken = "A"
             /\ ~IsZero(creds[c].SessionExpiresAt)
             /\ creds[c].SessionExpiresAt < AddSeconds(now, SafetyMarginSeconds))
            => /\ pc'[c] = "http"
               /\ reply[c] = <<>>
               /\ Request(c)'.refresh_token = "R"
               /\ Request(c)'.grant_type = "refresh_token"]_vars
    /\ [](\A c \in Callers :
            (Scenario(c) /\ pc[c] = "refreshed" /\ reply[c] = <<ScenarioResponse>>)
            => /\ creds[c].AccessToken = "A2"
               /\ FileDecodes(defaultProfile)
               /\ FileData(defaultProfile)[keychainAccessToken] = "A2"
               /\ FileData(defaultProfile)[keychainRefreshToken] = "R"
               /\ FileData(defaultProfile)[keychainUserEmail] = "e@x.com")

\* The scenario's resolution ended, refreshed from the scenario's response
C27_Witness ==
    \E c \in Callers :
        /\ Scenario(c)
        /\ pc[c] = "refreshed"
        /\ reply[c] = <<ScenarioResponse>>
        /\ issued = 1
        /\ now > TimeUnix(StartSeconds)

\* C29: a keyring write is all-or-nothing: whenever writeToKeyring has
\* returned an error, so that WriteCLICredentials goes on with the file,
\* the keyring entries of the profile are as before the write; in
\* particular, after a response that rotated both tokens the keyring does
\* not hold the new access_token.
C29_KeyringWriteAllOrNothing ==
    \A c \in Callers :
        (/\ pc[c] \in FileSteps
         /\ reply[c] # <<>>
         /\ reply[c][1].access_token # ""
         /\ reply[c][1].refresh_token # "")
        => ~(/\ StoredInKeyring(WriteProfile(c), keychainAccessToken)
             /\ KeyringValue(WriteProfile(c), keychainAccessToken)
                   = reply[c][1].access_token)

\* Both refreshes of one profile were answered with rotated tokens and
\* wrote back through the keyring alone
BothWroteKeyring(c, d) ==
    /\ c # d
    /\ pc[c] = "refreshed" /\ pc[d] = "refreshed"
    /\ WriteProfile(c) = WriteProfile(d)
    /\ fs = EmptyMap
    /\ reply[c][1].access_token # "" /\ reply[c][1].refresh_token # ""
    /\ reply[d][1].access_token # "" /\ reply[d][1].refresh_token # ""

\* C30: no field mixing across concurrent write-backs: after two
\* resolutions of one profile refreshed concurrently and both wrote back
\* through the keyring, the keyring's access_token and refresh_token are
\* those of one of the two refreshes, never the access token of one with
\* the refresh token of the other.
C30_NoFieldMixing ==
    \A c, d \in Callers :
        BothWroteKeyring(c, d)
        => (KeyringValue(WriteProfile(c), keychainAccessToken) = creds[c].AccessToken
            => KeyringValue(WriteProfile(c), keychainRefreshToken)
                  = creds[c].RefreshToken)

\* Caller c is writing back through the keyring, or has done so, no file
\* written
WritesKeyring(c) ==
    /\ pc[c] \in KeyringRequired \cup KeyringOptional \cup {"refreshed"}
    /\ reply[c] # <<>>
    /\ fs = EmptyMap

\* C31: no torn read: a ReadCLICredentials of a profile that runs while
\* another caller writes the profile back returns the access token and the
\* refresh token of one version of the record: the pair stored before the
\* write-back, or the pair of the refreshed credential.
C31_NoTornRead ==
    \A c, d \in Callers :
        (/\ c # d
         /\ WritesKeyring(c)
         /\ pc[d] = "ensure"
         /\ profile[d] = WriteProfile(c))
        => <<creds[d].AccessToken, creds[d].RefreshToken>>
              \in {<<InitialAccessToken(profile[d]), InitialRefreshToken(profile[d])>>,
                   <<creds[c].AccessToken, creds[c].RefreshToken>>}

\* C32: a refresh that reports success never persists or returns an empty
\* access token: after RefreshAccessToken returned nil on a 200 response
\* that decodes, the credential's AccessToken is not empty and neither is
\* the access_token stored for the profile, in the keyring or in the file.
C32_NoEmptyAccessToken ==
    \A c \in Callers :
        (pc[c] = "refreshed" /\ reply[c] # <<>> /\ reply[c][1].decodes)
        => /\ creds[c].AccessToken # ""
           /\ StoredInKeyring(WriteProfile(c), keychainAccessToken)
              => KeyringValue(WriteProfile(c), keychainAccessToken) # ""
           /\ (FileDecodes(WriteProfile(c))
               /\ Has(FileData(WriteProfile(c)), keychainAccessToken))
              => FileData(WriteProfile(c))[keychainAccessToken] # ""

\* C33: when RefreshAccessToken returns an error, for whatever reason, the
\* credential in memory is as it was before the call: in particular, after
\* a response that carried a new access token, the credential of a call
\* that returned an error does not hold that token.
C33_ErrorLeavesCredential ==
    \A c \in Callers :
        (/\ pc[c] \in {"refresh_failed", "write_failed"}
         /\ err[c] # NoErr
         /\ reply[c] # <<>>
         /\ reply[c][1].access_token # "")
        => creds[c].AccessToken # reply[c][1].access_token

\* The expiry stored in the backend that served c's read is there and is no
\* decimal integer
IsDecimal(s) == s # <<>> /\ \A i \in 1..Len(s) : IsDigit(s[i])
BadExpiryText(m, k) == Has(m, k) /\ ~IsDecimal(m[k])
BadExpiry(c) ==
    IF creds[c].StorageLocationUsed = "keyring"
    THEN BadExpiryText(keyring, <<getKeyringServiceName(profile[c]), keychainSessionExpiry>>)
    ELSE /\ creds[c].StorageLocationUsed = "file"
         /\ FileDecodes(profile[c])
         /\ BadExpiryText(FileData(profile[c]), keychainSessionExpiry)

\* C34: an expiry that is present but no decimal integer, in the keyring
\* entry or in the file key session_expires_at_unix, does not fail the
\* read: the credential is returned without expiry, IsTokenExpired is
\* false on it and EnsureValidToken returns without a refresh.
C34_BadExpiryNeverExpires ==
    /\ [](\A p \in Profiles :
            (FileComplete(p) /\ BadExpiryText(FileData(p), keychainSessionExpiry))
            => /\ readFromFile(p).err = NoErr
               /\ IsZero(readFromFile(p).creds.SessionExpiresAt))
    /\ [](\A c \in Callers :
            (pc[c] = "ensure" /\ BadExpiry(c))
            => /\ err[c] = NoErr
               /\ IsZero(creds[c].SessionExpiresAt)
               /\ ~IsTokenExpired(creds[c], now))
    /\ [][\A c \in Callers :
            /\ (/\ pc[c] = "get_expiry" /\ Moves(c)
                /\ BadExpiryText(keyring, <<getKeyringServiceName(profile[c]),
                                            keychainSessionExpiry>>))
               => /\ pc'[c] = "get_auth_flow"
                  /\ err'[c] = NoErr
                  /\ IsZero(creds'[c].SessionExpiresAt)
            /\ (pc[c] = "ensure" /\ Moves(c) /\ ~Answered(c)' /\ BadExpiry(c))
               => /\ pc'[c] = "valid"
                  /\ reply'[c] = <<>>
                  /\ issued' = issued]_vars

\* EnsureValidToken returned on a credential whose stored expiry, in the
\* backend that served the read, is no decimal integer
C34_Witness ==
    \E c \in Callers :
        /\ pc[c] = "valid"
        /\ BadExpiry(c)
        /\ IsZero(creds[c].SessionExpiresAt)
        /\ now > TimeUnix(StartSeconds)

\* C35: RefreshAccessToken on a nil credential or on one with an empty
\* RefreshToken returns an error before any HTTP request is sent, and
\* changes neither the credential nor the store; a request is only ever
\* sent for a credential with a refresh token.
C35_RefusedBeforeRequest ==
    /\ [](\A c \in Callers :
            pc[c] = "http" => ~creds[c].nil /\ Request(c).refresh_token # "")
    /\ [][\A c \in Callers :
            (/\ pc[c] = "ensure" /\ Moves(c)
             /\ IsTokenExpired(creds[c], now)
             /\ creds[c].nil \/ creds[c].RefreshToken = "")
            => /\ pc'[c] = "refresh_failed"
               /\ err'[c] = IF creds[c].nil THEN <<"credentials cannot be nil">>
                             ELSE <<"refresh token is empty">>
               /\ creds'[c] = creds[c]
               /\ keyring' = keyring /\ fs' = fs
               /\ reply'[c] = <<>> /\ issued' = issued]_vars

\* A refresh refused for its empty refresh token, nothing requested
C35_Witness ==
    \E c \in Callers :
        /\ pc[c] = "refresh_failed"
        /\ ~creds[c].nil
        /\ creds[c].RefreshToken = ""
        /\ err[c] = <<"refresh token is empty">>
        /\ reply[c] = <<>>
        /\ issued = 0

\* The expiry of c's credential is exactly the safety margin away
AtBoundary(c) ==
    ~creds[c].nil /\ creds[c].SessionExpiresAt = AddSeconds(now, SafetyMarginSeconds)

\* C36: IsTokenExpired at the exact boundary and on nil: a credential whose
\* expiry equals now + 5 minutes is not expired (the comparison is strict)
\* and EnsureValidToken returns on it without a refresh; a nil credential is
\* expired and EnsureValidToken hands it to RefreshAccessToken.
C36_BoundaryAndNil ==
    /\ [](IsTokenExpired(NilCreds, now))
    /\ [](\A c \in Callers : AtBoundary(c) => ~IsTokenExpired(creds[c], now))
    /\ [][\A c \in Callers :
            (pc[c] = "ensure" /\ Moves(c))
            => /\ AtBoundary(c)
                  => /\ pc'[c] = "valid"
                     /\ reply'[c] = <<>>
               /\ creds[c].nil
                  => /\ pc'[c] = "refresh_failed"
                     /\ err'[c] = <<"credentials cannot be nil">>]_vars

\* EnsureValidToken returned at once on a credential expiring exactly five
\* minutes later
C36_Witness ==
    \E c \in Callers :
        /\ pc[c] = "valid"
        /\ now = TimeUnix(StartSeconds)
        /\ AtBoundary(c)
        /\ creds[c].RefreshToken # ""

\* The steps a resolution has behind it at a position, at most
Progress(label) ==
    IF label = "idle" THEN 0
    ELSE IF label = "get_access_token" THEN 1
    ELSE IF label = "get_refresh_token" THEN 2
    ELSE IF label = "get_user_email" THEN 3
    ELSE IF label = "get_expiry" THEN 4
    ELSE IF label = "get_auth_flow" THEN 5
    ELSE IF label = "read_file" THEN 6
    ELSE 7 + Rank(label)
MaxSteps == Progress("refreshed")

\* C37: every resolution terminates: once called, a resolution whose
\* keyring, file and HTTP calls all return reaches one of the outcomes read
\* failed, valid, refreshed, refresh failed or write-back failed; each of
\* its steps moves it forward, so it takes at most MaxSteps steps, and an
\* ended resolution takes none.
C37_Terminates ==
    /\ [][\A c \in Callers :
            Moves(c) => /\ Progress(pc'[c]) > Progress(pc[c])
                        /\ Progress(pc'[c]) <= MaxSteps
                        /\ pc[c] \notin Terminal]_vars
    /\ \A c \in Callers : (pc[c] # "idle") ~> (pc[c] \in Terminal)

\* A resolution that came to its end the long way: the read, the refresh,
\* the keyring write refused, the file write failed
C37_Witness ==
    \E c \in Callers :
        /\ pc[c] = "write_failed"
        /\ reply[c] # <<>>
        /\ profile[c] = defaultProfile
        /\ Mentions(err[c], <<"write refreshed credentials: ">>)

\* The keyring service and the file of the default profile
DefaultService == "stackit-cli-provider"
DefaultPath == HomeDir \o "/.stackit/cli-provider-auth-storage.txt"
OtherEntriesKept(kr, kr2) ==
    \A e \in DOMAIN kr \cup DOMAIN kr2 :
        e[1] # DefaultService => (Has(kr, e) /\ Has(kr2, e) /\ kr2[e] = kr[e])
OtherFilesKept(fl, fl2) ==
    \A f \in DOMAIN fl \cup DOMAIN fl2 :
        f # DefaultPath => (Has(fl, f) /\ Has(fl2, f) /\ fl2[f] = fl[f])

\* C38: WriteCLICredentials on a credential whose SourceProfile is empty
\* writes to the keyring service and the file of the default profile and
\* to no other; on a nil credential it returns an error and touches
\* neither backend.
C38_EmptyProfileAndNil ==
    /\ [](\A c \in Callers : pc[c] \in AfterGrant => ~creds[c].nil)
    /\ [][\A c \in Callers :
            (Moves(c) /\ pc[c] \in {"write"} \cup AfterGrant)
            => /\ creds[c].nil
                  => /\ pc'[c] = "write_failed"
                     /\ err'[c] = <<"credentials cannot be nil">>
                     /\ keyring' = keyring /\ fs' = fs
               /\ (~creds[c].nil /\ creds[c].SourceProfile = "")
                  => /\ OtherEntriesKept(keyring, keyring')
                     /\ OtherFilesKept(fs, fs')
                     /\ (pc[c] \in KeyringRequired \cup KeyringOptional
                         /\ pc'[c] = "refreshed")
                        => /\ Has(keyring', <<DefaultService, keychainRefreshToken>>)
                           /\ keyring'[<<DefaultService, keychainRefreshToken>>]
                                 = creds[c].RefreshToken
                     /\ (pc[c] \in FileSteps /\ pc'[c] = "refreshed")
                        => /\ Has(fs', DefaultPath)
                           /\ fs'[DefaultPath].data[keychainRefreshToken]
                                 = creds[c].RefreshToken]_vars

\* A credential without SourceProfile written to a file that was not there:
\* the default profile's
C38_Witness ==
    \E c \in Callers :
        /\ pc[c] = "refreshed"
        /\ reply[c] = <<>>
        /\ ~creds[c].nil /\ creds[c].SourceProfile = ""
        /\ DOMAIN fs = {DefaultPath}
        /\ fs[DefaultPath].data[keychainRefreshToken] = creds[c].RefreshToken
        /\ ~Has(fs[DefaultPath].data, UnrelatedKey)

====
